---- MODULE Spec2Model ----
(***************************************************************************)
(* Watchpost: the deduplicating executor (src/watchpost/executor.py), the  *)
(* in-memory check-result cache (src/watchpost/cache.py, check.py) and the *)
(* per-(check, environment) run state machine (src/watchpost/app.py).      *)
(*                                                                         *)
(* Three specifications share the definitions below:                      *)
(*   SpecExecutor  the executor's API called by one thread, jobs           *)
(*                 completing on worker threads;                           *)
(*   SpecThreads   submit / result / completion callback statement by      *)
(*                 statement, called from two threads;                     *)
(*   Spec          Watchpost._run_check over the executor and the cache.   *)
(***************************************************************************)
EXTENDS Integers, Sequences, FiniteSets, TLC

\* ------------------------------------------------------------------ bounds
\* Number of jobs (futures) the executor is asked to start in one behaviour.
MaxJobs == 3

\* ------------------------------------------------------------ environments
Checks == {"svc"}

Envs == {"e1", "e2"}

\* The executor's keys; Watchpost._run_check uses (check.name, environment.name).
Keys == Checks \X Envs

None == "None"

\* ------------------------------------------------------------------ state
VARIABLES
    state,      \* CheckExecutor._state: key -> _KeyState (a dict: partial)
    futures,    \* the futures created so far: handle -> [key, done, outcome]
    lastCall,   \* the last API call on the executor and what it returned
    picked,     \* per key: the handles returned by result(key), in order
    completed,  \* per key: the handles in the order their jobs completed
    \* --- SpecThreads: the same executor, statement by statement
    objects,    \* the _KeyState objects allocated so far (index = identity)
    tstate,     \* CheckExecutor._state: key -> identity of its _KeyState
    tfutures,   \* handle -> [done, callback (registered), created_by]
    threads,    \* the calling threads: position, locals, return value
    workers,    \* per future: position of the worker in the done callback
    snapshot,   \* the executor state the concurrent calls started from
    \* --- Spec: the application core
    checks,     \* Watchpost.checks: check name -> its definition
    now,        \* the wall clock (datetime.now)
    cache,      \* InMemoryStorage.cache: cache key -> CacheEntry (a dict)
    run,        \* the last Watchpost._run_check call and what it returned
    refresh,    \* per key: the job submitted when the entry was found
                \* expired, and the expired value (history)
    \* --- SpecStream: Watchpost.run_checks
    stream,     \* the run_checks generator: position and what it yielded
    \* --- SpecVerify: registration, resolution and verification
    app,        \* the Watchpost object's resolver maps and verified flag
    \* --- SpecCapture: stdout capture of concurrently executing checks
    capture,    \* sys.stdout, the workers' buffers and positions
    \* --- SpecStorage: the storage backends of the cache
    storages,   \* ChainedStorage.storages: the backends and what they hold
    lastGet,    \* the last get call on a storage and what it returned
    \* --- SpecContext: the current application of a task
    context,    \* the context variable _cv and the app_context blocks
    \* --- SpecHostname: hostname resolution
    hostname,   \* the inputs and the result of the last call
    \* --- SpecResult: a check result under construction
    builder,    \* OngoingCheckResult.results and the last finalized result
    \* --- SpecEntry: cache entries asked whether they are expired
    probe       \* a CacheEntry, the instant and what is_expired returned

evars == <<state, futures, lastCall, picked, completed>>

tvars == <<objects, tstate, tfutures, threads, workers, snapshot>>

avars == <<checks, now, cache, run, refresh>>

wvars == <<builder, probe>>

zvars == <<storages, lastGet, context, hostname, wvars>>

xvars == <<app, capture, zvars>>

vars == <<evars, tvars, avars, stream, xvars>>

\* ------------------------------------------------------- the job outcomes
\* What a job (Check.run_sync / run_async) ends with: a non-empty list of n
\* ExecutionResults, a DatasourceUnavailable, or any other exception.
Outcomes ==
    { [exc |-> None, n |-> 1], [exc |-> None, n |-> 2],
      [exc |-> "DatasourceUnavailable", n |-> 0],
      [exc |-> "Exception", n |-> 0] }

NoOutcome == [exc |-> None, n |-> 0]

Handles == 1..MaxJobs

\* The handle the next started job gets (futures are created in order).
NextHandle(futs) == Cardinality(DOMAIN futs) + 1

\* ------------------------------------------------------------ _KeyState
\* dataclass _KeyState: two empty containers.
KeyState == [active_futures |-> <<>>, finished_futures |-> <<>>]

\* dict.setdefault(key, _KeyState())
SetDefault(st, key) ==
    IF key \in DOMAIN st THEN st ELSE st @@ (key :> KeyState)

\* del dict[key]
DelKey(st, key) == [k \in (DOMAIN st) \ {key} |-> st[k]]

\* list.remove(x): removes the first occurrence; a missing x (ValueError) is
\* swallowed by the caller.
RECURSIVE ListRemove(_, _)
ListRemove(s, x) ==
    IF s = <<>> THEN <<>>
    ELSE IF Head(s) = x THEN Tail(s)
    ELSE <<Head(s)>> \o ListRemove(Tail(s), x)

Range(s) == { s[i] : i \in DOMAIN s }

\* A submit that never hands back a running job's future.
submit_always_starts(st, key, resubmit, future) ==
    LET s1 == SetDefault(st, key) IN
    [state |-> [s1 EXCEPT ![key].active_futures = Append(@, future)],
     future |-> future,
     started |-> TRUE]

\* ---------------------------------------------------- CheckExecutor.submit
\* Returns the new state map, the future handed back and whether a job was
\* started.  `future` is the handle a newly started job gets.
submit(st, key, resubmit, future) ==
    LET s1 == SetDefault(st, key) IN
    IF ~resubmit /\ s1[key].active_futures # <<>>
    THEN [state |-> s1,
          future |-> Head(s1[key].active_futures),
          started |-> FALSE]
    ELSE [state |-> [s1 EXCEPT ![key].active_futures = Append(@, future)],
          future |-> future,
          started |-> TRUE]

\* A completion callback that queues the future at the front (appendleft).
done_callback_appendleft(st, key, future) ==
    IF key \in DOMAIN st
    THEN [st EXCEPT ![key].finished_futures = <<future>> \o @]
    ELSE st

\* -------------------------------------------- CheckExecutor._done_callback
\* Runs when the future completes.  A key without state: the future is only
\* logged ("completed after state cleanup") and is not queued.
done_callback(st, key, future) ==
    IF key \in DOMAIN st
    THEN [st EXCEPT ![key].finished_futures = Append(@, future)]
    ELSE st

\* A result() that reads the oldest finished future without popping it.
result_peek(st, key) ==
    IF key \notin DOMAIN st \/ st[key].finished_futures = <<>>
    THEN IF key \notin DOMAIN st \/ st[key].active_futures = <<>>
         THEN [state |-> st, kind |-> "KeyError", future |-> 0]
         ELSE [state |-> st, kind |-> "None", future |-> 0]
    ELSE [state |-> st, kind |-> "result",
          future |-> Head(st[key].finished_futures)]

\* A result() that gives up on the jobs of a key none of which has finished.
result_cancels_running(st, key) ==
    IF key \notin DOMAIN st \/ st[key].finished_futures = <<>>
    THEN IF key \notin DOMAIN st \/ st[key].active_futures = <<>>
         THEN [state |-> st, kind |-> "KeyError", future |-> 0]
         ELSE [state |-> DelKey(st, key), kind |-> "None", future |-> 0]
    ELSE
        LET finished_future == Head(st[key].finished_futures)
            s1 == [st EXCEPT
                     ![key].finished_futures = Tail(@),
                     ![key].active_futures = ListRemove(@, finished_future)]
        IN  IF s1[key].active_futures = <<>>
            THEN [state |-> DelKey(s1, key), kind |-> "result",
                  future |-> finished_future]
            ELSE [state |-> s1, kind |-> "result", future |-> finished_future]

\* ---------------------------------------------------- CheckExecutor.result
\* kind: "KeyError" | "None" (still running) | "AssertionError" |
\*       "result" (finished_future.result(): the value or the re-raised
\*       exception of `future`).
result(st, key) ==
    IF key \notin DOMAIN st \/ st[key].finished_futures = <<>>
    THEN IF key \notin DOMAIN st \/ st[key].active_futures = <<>>
         THEN [state |-> st, kind |-> "KeyError", future |-> 0]
         ELSE [state |-> st, kind |-> "None", future |-> 0]
    ELSE
        LET finished_future == Head(st[key].finished_futures)
            s1 == [st EXCEPT
                     ![key].finished_futures = Tail(@),
                     ![key].active_futures = ListRemove(@, finished_future)]
        IN  IF s1[key].active_futures = <<>>
            THEN IF s1[key].finished_futures # <<>>
                 THEN [state |-> s1, kind |-> "AssertionError",
                       future |-> finished_future]
                 ELSE [state |-> DelKey(s1, key), kind |-> "result",
                       future |-> finished_future]
            ELSE [state |-> s1, kind |-> "result", future |-> finished_future]

\* ------------------------------------------------------------ the history
NoCall == [op |-> "none", key |-> <<"", "">>, resubmit |-> FALSE,
           kind |-> "none", future |-> 0, started |-> FALSE,
           outcome |-> NoOutcome]

SubmitCall(key, resubmit, r) ==
    [op |-> "submit", key |-> key, resubmit |-> resubmit, kind |-> "future",
     future |-> r.future, started |-> r.started, outcome |-> NoOutcome]

\* Future.result(): the value the job returned, or its exception re-raised.
future_result(futs, h) == futs[h].outcome

ResultCall(futs, key, r) ==
    [op |-> "result", key |-> key, resubmit |-> FALSE, kind |-> r.kind,
     future |-> r.future, started |-> FALSE,
     outcome |-> IF r.kind = "result" THEN future_result(futs, r.future)
                 ELSE NoOutcome]

EmptyMap == [k \in {} |-> 0]

InitExecutor ==
    /\ state = EmptyMap
    /\ futures = EmptyMap
    /\ lastCall = NoCall
    /\ picked = [k \in Keys |-> <<>>]
    /\ completed = [k \in Keys |-> <<>>]

\* SpecExecutor and Spec do not use the statement-level variables.
ThreadsUnused ==
    /\ objects = <<>>
    /\ tstate = EmptyMap
    /\ tfutures = EmptyMap
    /\ threads = EmptyMap
    /\ workers = EmptyMap
    /\ snapshot = EmptyMap

\* Only SpecStream iterates run_checks.
StreamUnused == stream = EmptyMap

\* Only SpecVerify uses the resolver maps.
VerifyUnused == app = EmptyMap

\* Only SpecCapture looks at the output of the executing checks.
CaptureUnused == capture = EmptyMap

\* Only SpecStorage uses storage backends of its own.
StorageUnused == storages = <<>> /\ lastGet = EmptyMap

\* Only SpecContext enters app_context blocks.
ContextUnused == context = EmptyMap

\* Only SpecHostname resolves hostnames.
HostnameUnused == hostname = EmptyMap

\* Only SpecResult builds results, only SpecEntry probes entries.
BuilderUnused == builder = EmptyMap

ProbeUnused == probe = EmptyMap

MoreUnused == BuilderUnused /\ ProbeUnused

RestUnused ==
    StorageUnused /\ ContextUnused /\ HostnameUnused /\ MoreUnused

OthersUnused == VerifyUnused /\ CaptureUnused /\ RestUnused

\* SpecExecutor and SpecThreads use the executor without an application.
AppUnused ==
    /\ checks = EmptyMap
    /\ now = 0
    /\ cache = EmptyMap
    /\ run = EmptyMap
    /\ refresh = EmptyMap
    /\ StreamUnused

\* executor.submit(key, func, resubmit=...)
ExSubmit(key, resubmit) ==
    LET h == NextHandle(futures)
        r == submit(state, key, resubmit, h)
    IN  /\ r.started => h <= MaxJobs
        /\ state' = r.state
        /\ futures' = IF r.started
                      THEN futures @@ (h :> [key |-> key, done |-> FALSE,
                                             outcome |-> NoOutcome])
                      ELSE futures
        /\ lastCall' = SubmitCall(key, resubmit, r)
        /\ UNCHANGED <<picked, completed, tvars, avars, stream, xvars>>

\* A worker finishes the job of future h with outcome o; the future's done
\* callback runs.
ExComplete(h, o) ==
    /\ h \in DOMAIN futures
    /\ ~futures[h].done
    /\ futures' = [futures EXCEPT ![h].done = TRUE, ![h].outcome = o]
    /\ state' = done_callback(state, futures[h].key, h)
    /\ completed' = [completed EXCEPT ![futures[h].key] = Append(@, h)]
    /\ UNCHANGED <<lastCall, picked, tvars, avars, stream, xvars>>

\* executor.result(key)
ExResult(key) ==
    LET r == result(state, key) IN
    /\ state' = r.state
    /\ lastCall' = ResultCall(futures, key, r)
    /\ picked' = IF r.kind = "result"
                 THEN [picked EXCEPT ![key] = Append(@, r.future)]
                 ELSE picked
    /\ UNCHANGED <<futures, completed, tvars, avars, stream, xvars>>

NextExecutor ==
    \/ \E key \in Keys, resubmit \in BOOLEAN : ExSubmit(key, resubmit)
    \/ \E h \in Handles, o \in Outcomes : ExComplete(h, o)
    \/ \E key \in Keys : ExResult(key)

\* A fresh executor and nothing else.
InitExecutorAlone ==
    InitExecutor /\ ThreadsUnused /\ AppUnused /\ OthersUnused

SpecExecutor == InitExecutorAlone /\ [][NextExecutor]_vars

\* ================================================== executor: properties
Active(key) == IF key \in DOMAIN state THEN state[key].active_futures ELSE <<>>

Finished(key) ==
    IF key \in DOMAIN state THEN state[key].finished_futures ELSE <<>>

Count(s, x) == Cardinality({ i \in DOMAIN s : s[i] = x })

\* C2: a submit(key, resubmit=false) that directly follows a
\* submit(key, resubmit=false) (no result() in between) returns the same
\* future and starts no job; a submit(key, resubmit=true) that directly
\* follows a submit(key, resubmit=true) returns a different future, and both
\* calls started a job.
C2_ConsecutiveSubmits ==
    [][ \A key \in Keys :
          (lastCall.op = "submit" /\ lastCall.key = key) =>
            /\ (~lastCall.resubmit /\ ExSubmit(key, FALSE)) =>
                  /\ lastCall'.future = lastCall.future
                  /\ ~lastCall'.started
                  /\ futures' = futures
            /\ (lastCall.resubmit /\ ExSubmit(key, TRUE)) =>
                  /\ lastCall'.future # lastCall.future
                  /\ lastCall.started /\ lastCall'.started
                  /\ Cardinality(DOMAIN futures') =
                       Cardinality(DOMAIN futures) + 1 ]_vars

\* A submit(resubmit=false) was answered with the future of an earlier
\* submit whose job is still running.
C2_Witness ==
    /\ lastCall.op = "submit" /\ ~lastCall.resubmit /\ ~lastCall.started
    /\ lastCall.future \in DOMAIN futures
    /\ ~futures[lastCall.future].done

\* C3: result(key) on a key with a finished future returns the outcome of
\* the oldest finished future (the head of the queue; value or re-raised
\* exception), which was never returned before, and afterwards that future is
\* neither in the key's active list nor in its finished queue; every
\* completed job is at any time either awaiting pickup exactly once or was
\* returned by exactly one result(key) call.
C3_Step ==
    \A key \in Keys :
        ExResult(key) =>
            IF Finished(key) # <<>>
            THEN LET h == Head(Finished(key)) IN
                 /\ futures[h].done
                 /\ lastCall'.kind = "result"
                 /\ lastCall'.future = h
                 /\ lastCall'.outcome = futures[h].outcome
                 /\ Count(picked[key], h) = 0
                 /\ key \in DOMAIN state' =>
                       /\ Count(state'[key].active_futures, h) = 0
                       /\ Count(state'[key].finished_futures, h) = 0
            ELSE /\ lastCall'.kind \in {"None", "KeyError"}
                 /\ state' = state

C3_ExactlyOnce ==
    \A h \in DOMAIN futures :
        LET key == futures[h].key IN
        Count(picked[key], h) + Count(Finished(key), h) =
            (IF futures[h].done THEN 1 ELSE 0)

C3_Pickup == []C3_ExactlyOnce /\ [][C3_Step]_vars

\* result(key) has re-raised the exception of a failed job and has dropped
\* the key's state.
C3_Witness ==
    /\ lastCall.op = "result" /\ lastCall.kind = "result"
    /\ lastCall.outcome.exc # None
    /\ lastCall.key \notin DOMAIN state
    /\ Count(picked[lastCall.key], lastCall.future) = 1

\* C4: for every key the futures returned by successive result(key) calls
\* are, in order, the first futures of the key in completion order.
C4_CompletionOrder ==
    \A key \in Keys :
        /\ Len(picked[key]) <= Len(completed[key])
        /\ picked[key] = SubSeq(completed[key], 1, Len(picked[key]))

\* Two results were picked up for a key whose later submitted job completed
\* first.
C4_Witness ==
    \E key \in Keys :
        /\ Len(picked[key]) >= 2
        /\ picked[key][1] > picked[key][2]

\* =====================================================================
\* SpecThreads: CheckExecutor with submit() and result() called from two
\* threads (two requests served at once), one key, each Python statement of
\* the three operations a step of its own.
\* =====================================================================
TKey == <<"svc", "e1">>

\* Thread A calls submit(key, ...), thread B calls result(key).
Callers == {"A", "B"}

Submitter == "A"

Picker == "B"

\* Jobs submitted (resubmit=True) before the two concurrent calls start.
InitJobs == 2

NoRet == [kind |-> "none", future |-> 0, started |-> FALSE]

IdleThread ==
    [pc |-> "idle", op |-> "none", resubmit |-> FALSE, key_state |-> 0,
     future |-> 0, created |-> 0, ret |-> NoRet]

RECURSIVE SubmitAll(_, _)
SubmitAll(st, n) ==
    IF n = 0 THEN st
    ELSE LET before == SubmitAll(st, n - 1) IN
         submit(before, TKey, TRUE, n).state

RECURSIVE CompleteAll(_, _)
CompleteAll(st, order) ==
    IF order = <<>> THEN st
    ELSE CompleteAll(done_callback(st, TKey, Head(order)), Tail(order))

RECURSIVE PickUp(_, _)
PickUp(st, n) == IF n = 0 THEN st ELSE PickUp(result(st, TKey).state, n - 1)

\* The orders in which some of the jobs 1..n can have completed.
CompletionOrders(n) ==
    { order \in UNION { [1..m -> 1..n] : m \in 0..n } :
        \A i, j \in DOMAIN order : i # j => order[i] # order[j] }

\* The executor after n submits, the completions in `order` and np pickups,
\* all made one after the other.
InitThreads ==
    \E n \in 0..InitJobs :
      \E order \in CompletionOrders(n) :
        \E np \in 0..Len(order) :
          LET st == PickUp(CompleteAll(SubmitAll(EmptyMap, n), order), np) IN
          /\ objects = IF TKey \in DOMAIN st THEN <<st[TKey]>> ELSE <<>>
          /\ tstate = IF TKey \in DOMAIN st THEN (TKey :> 1) ELSE EmptyMap
          /\ tfutures = [h \in 1..n |->
                           [done |-> h \in Range(order), callback |-> TRUE]]
          /\ workers = [h \in 1..n |->
                          [pc |-> IF h \in Range(order) THEN "end" ELSE "run",
                           key_state |-> 0]]
          /\ threads = [t \in Callers |-> IdleThread]
          /\ snapshot = [state |-> st, started |-> 1..n,
                         done |-> Range(order)]

ExecutorUnused ==
    /\ state = EmptyMap
    /\ futures = EmptyMap
    /\ lastCall = NoCall
    /\ picked = [k \in Keys |-> <<>>]
    /\ completed = [k \in Keys |-> <<>>]

Return(t, kind, future, started) ==
    [threads EXCEPT ![t].pc = "done",
                    ![t].ret = [kind |-> kind, future |-> future,
                                started |-> started]]

\* ---- submit, executor.py:213  key_state = self._state.setdefault(key, ...)
T_Submit213(t, resubmit) ==
    /\ threads[t].pc = "idle"
    /\ IF TKey \in DOMAIN tstate
       THEN /\ threads' = [threads EXCEPT ![t].pc = "submit215",
                             ![t].op = "submit", ![t].resubmit = resubmit,
                             ![t].key_state = tstate[TKey]]
            /\ UNCHANGED <<objects, tstate>>
       ELSE /\ objects' = Append(objects, KeyState)
            /\ tstate' = (TKey :> Len(objects) + 1)
            /\ threads' = [threads EXCEPT ![t].pc = "submit215",
                             ![t].op = "submit", ![t].resubmit = resubmit,
                             ![t].key_state = Len(objects) + 1]
    /\ UNCHANGED <<tfutures, workers, snapshot, evars, avars, stream, xvars>>

\* ---- submit, executor.py:215-218  if not resubmit and active_futures
T_Submit215(t) ==
    /\ threads[t].pc = "submit215"
    /\ LET active == objects[threads[t].key_state].active_futures IN
       IF ~threads[t].resubmit /\ active # <<>>
       THEN threads' = Return(t, "future", Head(active), FALSE)
       ELSE threads' = [threads EXCEPT ![t].pc = "submit227"]
    /\ UNCHANGED <<objects, tstate, tfutures, workers, snapshot, evars, avars, stream, xvars>>

\* ---- submit, executor.py:221-227  future = self.executor.submit(func, ...)
T_Submit227(t) ==
    /\ threads[t].pc = "submit227"
    /\ LET h == NextHandle(tfutures) IN
       /\ tfutures' = tfutures @@ (h :> [done |-> FALSE, callback |-> FALSE])
       /\ workers' = workers @@ (h :> [pc |-> "run", key_state |-> 0])
       /\ threads' = [threads EXCEPT ![t].pc = "submit228",
                        ![t].future = h, ![t].created = h]
    /\ UNCHANGED <<objects, tstate, snapshot, evars, avars, stream, xvars>>

\* ---- submit, executor.py:228  key_state.active_futures.append(future)
T_Submit228(t) ==
    /\ threads[t].pc = "submit228"
    /\ objects' = [objects EXCEPT ![threads[t].key_state].active_futures =
                     Append(@, threads[t].future)]
    /\ threads' = [threads EXCEPT ![t].pc = "submit229"]
    /\ UNCHANGED <<tstate, tfutures, workers, snapshot, evars, avars, stream, xvars>>

\* ---- submit, executor.py:229-230  future.add_done_callback(...); return
\* A future that is already done runs the callback in the calling thread.
T_Submit229(t) ==
    /\ threads[t].pc = "submit229"
    /\ IF tfutures[threads[t].future].done
       THEN /\ threads' = [threads EXCEPT ![t].pc = "callback233"]
            /\ UNCHANGED tfutures
       ELSE /\ tfutures' = [tfutures EXCEPT
                              ![threads[t].future].callback = TRUE]
            /\ threads' = Return(t, "future", threads[t].future, TRUE)
    /\ UNCHANGED <<objects, tstate, workers, snapshot, evars, avars, stream, xvars>>

\* ---- _done_callback in the calling thread, executor.py:233
T_Callback233(t) ==
    /\ threads[t].pc = "callback233"
    /\ threads' = [threads EXCEPT ![t].pc = "callback235",
                     ![t].key_state =
                        IF TKey \in DOMAIN tstate THEN tstate[TKey] ELSE 0]
    /\ UNCHANGED <<objects, tstate, tfutures, workers, snapshot, evars, avars, stream, xvars>>

\* ---- _done_callback in the calling thread, executor.py:234-237
T_Callback235(t) ==
    /\ threads[t].pc = "callback235"
    /\ objects' = IF threads[t].key_state # 0
                  THEN [objects EXCEPT
                          ![threads[t].key_state].finished_futures =
                             Append(@, threads[t].future)]
                  ELSE objects
    /\ threads' = Return(t, "future", threads[t].future, TRUE)
    /\ UNCHANGED <<tstate, tfutures, workers, snapshot, evars, avars, stream, xvars>>

\* ---- a worker finishes the job of future h (Future.set_result /
\* set_exception) and goes on to the callbacks registered so far.
W_Finish(h) ==
    /\ h \in DOMAIN workers
    /\ workers[h].pc = "run"
    /\ tfutures' = [tfutures EXCEPT ![h].done = TRUE]
    /\ workers' = [workers EXCEPT ![h].pc =
                     IF tfutures[h].callback THEN "callback233" ELSE "end"]
    /\ UNCHANGED <<objects, tstate, threads, snapshot, evars, avars, stream, xvars>>

\* ---- _done_callback on the worker, executor.py:233
W_Callback233(h) ==
    /\ h \in DOMAIN workers
    /\ workers[h].pc = "callback233"
    /\ workers' = [workers EXCEPT ![h].pc = "callback235",
                     ![h].key_state =
                        IF TKey \in DOMAIN tstate THEN tstate[TKey] ELSE 0]
    /\ UNCHANGED <<objects, tstate, tfutures, threads, snapshot, evars, avars, stream, xvars>>

\* ---- _done_callback on the worker, executor.py:234-237
W_Callback235(h) ==
    /\ h \in DOMAIN workers
    /\ workers[h].pc = "callback235"
    /\ objects' = IF workers[h].key_state # 0
                  THEN [objects EXCEPT
                          ![workers[h].key_state].finished_futures =
                             Append(@, h)]
                  ELSE objects
    /\ workers' = [workers EXCEPT ![h].pc = "end"]
    /\ UNCHANGED <<tstate, tfutures, threads, snapshot, evars, avars, stream, xvars>>

\* ---- result, executor.py:258  key_state = self._state.get(key)
T_Result258(t) ==
    /\ threads[t].pc = "idle"
    /\ threads' = [threads EXCEPT ![t].pc = "result260", ![t].op = "result",
                     ![t].key_state =
                        IF TKey \in DOMAIN tstate THEN tstate[TKey] ELSE 0]
    /\ UNCHANGED <<objects, tstate, tfutures, workers, snapshot, evars, avars, stream, xvars>>

\* ---- result, executor.py:260-266
T_Result260(t) ==
    /\ threads[t].pc = "result260"
    /\ LET ks == threads[t].key_state IN
       IF ks = 0 \/ objects[ks].finished_futures = <<>>
       THEN IF ks = 0 \/ objects[ks].active_futures = <<>>
            THEN threads' = Return(t, "KeyError", 0, FALSE)
            ELSE threads' = Return(t, "None", 0, FALSE)
       ELSE threads' = [threads EXCEPT ![t].pc = "result268"]
    /\ UNCHANGED <<objects, tstate, tfutures, workers, snapshot, evars, avars, stream, xvars>>

\* ---- result, executor.py:268  finished_futures.popleft()
\* (IndexError when another thread emptied the deque in the meantime)
T_Result268(t) ==
    /\ threads[t].pc = "result268"
    /\ LET ks == threads[t].key_state IN
       IF objects[ks].finished_futures = <<>>
       THEN /\ threads' = Return(t, "IndexError", 0, FALSE)
            /\ UNCHANGED objects
       ELSE /\ threads' = [threads EXCEPT ![t].pc = "result270",
                             ![t].future = Head(objects[ks].finished_futures)]
            /\ objects' = [objects EXCEPT ![ks].finished_futures = Tail(@)]
    /\ UNCHANGED <<tstate, tfutures, workers, snapshot, evars, avars, stream, xvars>>

\* ---- result, executor.py:269-272  active_futures.remove(finished_future)
T_Result270(t) ==
    /\ threads[t].pc = "result270"
    /\ objects' = [objects EXCEPT ![threads[t].key_state].active_futures =
                     ListRemove(@, threads[t].future)]
    /\ threads' = [threads EXCEPT ![t].pc = "result274"]
    /\ UNCHANGED <<tstate, tfutures, workers, snapshot, evars, avars, stream, xvars>>

\* ---- result, executor.py:274-278  cleanup and return
\* (del self._state[key] raises KeyError when the key is already gone)
T_Result274(t) ==
    /\ threads[t].pc = "result274"
    /\ LET ks == threads[t].key_state IN
       IF objects[ks].active_futures = <<>>
       THEN IF objects[ks].finished_futures # <<>>
            THEN /\ threads' = Return(t, "AssertionError",
                                      threads[t].future, FALSE)
                 /\ UNCHANGED tstate
            ELSE IF TKey \in DOMAIN tstate
                 THEN /\ tstate' = EmptyMap
                      /\ threads' = Return(t, "result", threads[t].future,
                                           FALSE)
                 ELSE /\ threads' = Return(t, "KeyError", threads[t].future,
                                           FALSE)
                      /\ UNCHANGED tstate
       ELSE /\ threads' = Return(t, "result", threads[t].future, FALSE)
            /\ UNCHANGED tstate
    /\ UNCHANGED <<objects, tfutures, workers, snapshot, evars, avars, stream, xvars>>

NextThreads ==
    \/ \E resubmit \in BOOLEAN : T_Submit213(Submitter, resubmit)
    \/ \E t \in Callers : T_Submit215(t)
    \/ \E t \in Callers : T_Submit227(t)
    \/ \E t \in Callers : T_Submit228(t)
    \/ \E t \in Callers : T_Submit229(t)
    \/ \E t \in Callers : T_Callback233(t)
    \/ \E t \in Callers : T_Callback235(t)
    \/ \E h \in DOMAIN workers : W_Finish(h)
    \/ \E h \in DOMAIN workers : W_Callback233(h)
    \/ \E h \in DOMAIN workers : W_Callback235(h)
    \/ T_Result258(Picker)
    \/ \E t \in Callers : T_Result260(t)
    \/ \E t \in Callers : T_Result268(t)
    \/ \E t \in Callers : T_Result270(t)
    \/ \E t \in Callers : T_Result274(t)

\* An executor in use, seen statement by statement, and nothing else.
InitThreadsAlone ==
    InitThreads /\ ExecutorUnused /\ AppUnused /\ OthersUnused

SpecThreads == InitThreadsAlone /\ [][NextThreads]_vars

\* ------------------------------------------------ sequential orderings
\* The executor's state map as the threads left it.
TAbstract ==
    IF TKey \in DOMAIN tstate THEN (TKey :> objects[tstate[TKey]])
    ELSE EmptyMap

\* Both calls have returned and no completion callback is under way.
Quiescent ==
    /\ \A t \in Callers : threads[t].pc = "done"
    /\ \A h \in DOMAIN workers : workers[h].pc \in {"run", "end"}

\* The operations of the concurrent run: the two calls and the completion
\* (with its callback) of every future that completed during the run.
Operations ==
    { [type |-> "call", caller |-> t, handle |-> 0] : t \in Callers }
    \cup
    { [type |-> "complete", caller |-> "", handle |-> h] :
        h \in { x \in DOMAIN tfutures :
                  tfutures[x].done /\ x \notin snapshot.done } }

\* One operation applied atomically to the executor state s.state; ok says
\* whether it was possible there and returned what the concurrent run saw.
ApplyOperation(s, o) ==
    IF o.type = "complete"
    THEN [ok |-> o.handle \in s.started,
          state |-> done_callback(s.state, TKey, o.handle),
          started |-> s.started]
    ELSE LET t == threads[o.caller] IN
         IF t.op = "submit"
         THEN LET r == submit(s.state, TKey, t.resubmit, t.created) IN
              [ok |-> /\ r.started = t.ret.started
                      /\ r.future = t.ret.future
                      /\ t.ret.kind = "future",
               state |-> r.state,
               started |-> IF r.started THEN s.started \cup {r.future}
                           ELSE s.started]
         ELSE LET r == result(s.state, TKey) IN
              [ok |-> r.kind = t.ret.kind /\ r.future = t.ret.future,
               state |-> r.state,
               started |-> s.started]

\* The final states of the orderings of ops in which every operation is
\* possible and returns what it returned in the concurrent run.
RECURSIVE SequentialOutcomes(_, _)
SequentialOutcomes(s, ops) ==
    IF ops = {} THEN {s.state}
    ELSE UNION { LET r == ApplyOperation(s, o) IN
                 IF r.ok
                 THEN SequentialOutcomes(
                          [state |-> r.state, started |-> r.started],
                          ops \ {o})
                 ELSE {} : o \in ops }

\* C1: whenever the two concurrent calls have returned and the callbacks have
\* run, the per-key state and the returned values are those of some
\* sequential ordering of the same operations.
C1_Linearizable ==
    Quiescent =>
        TAbstract \in SequentialOutcomes(
                         [state |-> snapshot.state,
                          started |-> snapshot.started],
                         Operations)

\* =====================================================================
\* Spec: Watchpost._run_check over the executor and the check-result cache
\* =====================================================================
\* Last instant of the clock in one behaviour.
MaxTime == 2

\* Number of check executions the runs of one behaviour may start.
MaxExecutions == 2

\* timedelta | None: None is NoDuration.
NoDuration == -1

\* The positive cache_for / ttl used by the checks and the seeded entries.
CacheFor == 1

\* SchedulingDecision (IntEnum)
SCHEDULE == 0

SKIP == 1

DONT_SCHEDULE == 2

Decisions == {SCHEDULE, SKIP, DONT_SCHEDULE}

\* Watchpost.execution_environment
ExecutionEnvironment == "e1"

\* ---------------------------------------------------- ExecutionResult
\* summary and details carry the text and the job it comes from (0: none).
ExecutionResult(check_state, text, job, details) ==
    [check_state |-> check_state, summary |-> <<text, job>>,
     details |-> details]

\* What job h returns when it produces n results ("Run <h>").
JobResults(h, n) ==
    [i \in 1..n |-> ExecutionResult("OK", "Run", h, <<>>)]

\* A result stored in the cache before the application started.
SeededResults == <<ExecutionResult("OK", "Cached result", 0, <<>>)>>

Unschedulable ==
    ExecutionResult("UNKNOWN",
        "Check is temporarily unschedulable and no prior results are available",
        0, <<>>)

RunningAsynchronously ==
    ExecutionResult("UNKNOWN",
        "Check is running asynchronously and first results are not available yet",
        0, <<>>)

\* ------------------------------------------------------------ CacheEntry
NoEntry == [exists |-> FALSE, value |-> <<>>, added_at |-> 0,
            ttl |-> NoDuration]

CacheEntry(value, added_at, ttl) ==
    [exists |-> TRUE, value |-> value, added_at |-> added_at, ttl |-> ttl]

\* CacheEntry.is_expired with an inclusive comparison.
is_expired_inclusive(entry, t) ==
    entry.ttl # NoDuration /\ t - entry.added_at >= entry.ttl

\* CacheEntry.is_expired (entries of the check cache always have added_at)
is_expired(entry, t) ==
    entry.ttl # NoDuration /\ t - entry.added_at > entry.ttl

\* An InMemoryStorage.get that keeps the expired entry it returns.
storage_get_keeps(cch, key, return_expired, t) ==
    IF key \notin DOMAIN cch
    THEN [cache |-> cch, entry |-> NoEntry]
    ELSE IF is_expired(cch[key], t)
         THEN [cache |-> cch,
               entry |-> IF return_expired THEN cch[key] ELSE NoEntry]
         ELSE [cache |-> cch, entry |-> cch[key]]

\* InMemoryStorage.get
storage_get(cch, key, return_expired, t) ==
    IF key \notin DOMAIN cch
    THEN [cache |-> cch, entry |-> NoEntry]
    ELSE IF is_expired(cch[key], t)
         THEN [cache |-> DelKey(cch, key),
               entry |-> IF return_expired THEN cch[key] ELSE NoEntry]
         ELSE [cache |-> cch, entry |-> cch[key]]

\* InMemoryStorage.store
storage_store(cch, key, entry) ==
    [k \in (DOMAIN cch) \cup {key} |-> IF k = key THEN entry ELSE cch[k]]

\* CheckCache.store_check_results: a no-op without cache_for.
store_check_results(cch, cache_for, key, results, t) ==
    IF cache_for = NoDuration \/ cache_for = 0
    THEN cch
    ELSE storage_store(cch, key, CacheEntry(results, t, cache_for))

\* ------------------------------------------------- scheduling strategies
Strategy(kind, envs) == [kind |-> kind, envs |-> envs]

DetectImpossibleCombinationStrategy ==
    Strategy("DetectImpossibleCombination", {})

MustRunInTargetEnvironmentStrategy ==
    Strategy("MustRunInTargetEnvironment", {})

\* A strategy written by the operator (as AlwaysSkipStrategy in the tests);
\* what its schedule() returns is an input of every run.
CustomStrategy == Strategy("Custom", {})

\* SchedulingStrategy.schedule of the built-in strategies.  The checks of
\* this specification pass verify_check_scheduling, so
\* DetectImpossibleCombinationStrategy does not raise.
schedule(strategy, current_execution_environment, target_environment, custom) ==
    CASE strategy.kind = "MustRunInGivenExecutionEnvironment" ->
            IF current_execution_environment \in strategy.envs
            THEN SCHEDULE ELSE DONT_SCHEDULE
      [] strategy.kind = "MustRunInTargetEnvironment" ->
            IF current_execution_environment = target_environment
            THEN SCHEDULE ELSE DONT_SCHEDULE
      [] strategy.kind = "MustRunAgainstGivenTargetEnvironment" ->
            IF target_environment \in strategy.envs
            THEN SCHEDULE ELSE DONT_SCHEDULE
      [] strategy.kind = "Custom" -> custom
      [] OTHER -> SCHEDULE

\* Watchpost.default_scheduling_strategies
default_scheduling_strategies == <<DetectImpossibleCombinationStrategy>>

\* Watchpost._resolve_scheduling_strategies (checks without datasources)
resolve_scheduling_strategies(check) ==
    check.scheduling_strategies \o default_scheduling_strategies

\* An aggregation in which the strategy evaluated last decides.
RECURSIVE final_decision_last_wins(_, _, _, _)
final_decision_last_wins(strategies, decision, target_environment, custom) ==
    IF strategies = <<>> THEN decision
    ELSE final_decision_last_wins(
             Tail(strategies),
             schedule(Head(strategies), ExecutionEnvironment,
                      target_environment, custom),
             target_environment, custom)

\* Watchpost._resolve_check_scheduling_decision
RECURSIVE final_decision(_, _, _, _)
final_decision(strategies, decision, target_environment, custom) ==
    IF strategies = <<>> THEN decision
    ELSE LET d == schedule(Head(strategies), ExecutionEnvironment,
                           target_environment, custom)
         IN  final_decision(Tail(strategies),
                            IF d > decision THEN d ELSE decision,
                            target_environment, custom)

resolve_check_scheduling_decision(check, target_environment, custom) ==
    final_decision(resolve_scheduling_strategies(check), SCHEDULE,
                   target_environment, custom)

\* ------------------------------------------------------------ _run_check
\* A SKIP branch that ignores the cached entry.
skip_result_ignores_cache(cached) == <<Unschedulable>>

\* app.py:528-541
skip_result(cached) ==
    IF ~cached.exists THEN <<Unschedulable>> ELSE cached.value

\* A match statement whose DONT_SCHEDULE case reports like SKIP.
unscheduled_reports_dont_schedule(decision, cached) ==
    IF decision = SCHEDULE
    THEN [returns |-> FALSE, none |-> FALSE, value |-> <<>>]
    ELSE [returns |-> TRUE, none |-> FALSE, value |-> skip_result(cached)]

\* A match statement whose SKIP case falls through to the submit.
unscheduled_skip_falls_through(decision, cached) ==
    IF decision = DONT_SCHEDULE
    THEN [returns |-> TRUE, none |-> TRUE, value |-> <<>>]
    ELSE [returns |-> FALSE, none |-> FALSE, value |-> <<>>]

\* app.py:524-545  the match on the scheduling decision: whether _run_check
\* returns here, and what (none: it returns None).
unscheduled(decision, cached) ==
    IF decision = SCHEDULE
    THEN [returns |-> FALSE, none |-> FALSE, value |-> <<>>]
    ELSE IF decision = SKIP
    THEN [returns |-> TRUE, none |-> FALSE, value |-> skip_result(cached)]
    ELSE [returns |-> TRUE, none |-> TRUE, value |-> <<>>]

\* should_update_cache without the cache_for clause.
should_update_cache_no_cache_for(cache_for, cached, t) ==
    \/ ~cached.exists
    \/ is_expired(cached, t)

\* app.py:548-552
should_update_cache(cache_for, cached, t) ==
    \/ cache_for = NoDuration
    \/ ~cached.exists
    \/ is_expired(cached, t)

\* app.py:553-556
can_reuse_results(cached, t) == cached.exists /\ ~is_expired(cached, t)

\* str(e) / the formatted exception of the job of future h
ExceptionText(outcome, h) == <<outcome.exc, h>>

\* A fallback that reports the job as unschedulable.
still_running_unschedulable(cached) ==
    IF cached.exists THEN cached.value ELSE <<Unschedulable>>

\* app.py:586-587, 624-635  executor.result answered None
still_running(cached) ==
    IF cached.exists THEN cached.value ELSE <<RunningAsynchronously>>

\* A handler that forgets the cached results.
datasource_unavailable_ignores_cache(cached, outcome, h) ==
    <<ExecutionResult("UNKNOWN", outcome.exc, h,
                      <<ExceptionText(outcome, h)>>)>>

\* app.py:588-609  except DatasourceUnavailable (raised by the job of
\* future h): the cached results with the exception text added to the
\* details of each, or one UNKNOWN result with the message as summary.
datasource_unavailable(cached, outcome, h) ==
    IF cached.exists /\ cached.value # <<>>
    THEN [i \in DOMAIN cached.value |->
            [cached.value[i] EXCEPT !.details =
                Append(@, ExceptionText(outcome, h))]]
    ELSE <<ExecutionResult("UNKNOWN", outcome.exc, h,
                           <<ExceptionText(outcome, h)>>)>>

\* A handler that reports the failure once per declared environment.
execution_failed_twice(text, h) ==
    <<ExecutionResult("CRIT", text, h, <<<<text, h>>>>),
      ExecutionResult("CRIT", text, h, <<<<text, h>>>>)>>

\* app.py:610-622  except Exception: one CRIT result with the message as
\* summary and the formatted traceback as details.
execution_failed(text, h) ==
    <<ExecutionResult("CRIT", text, h, <<<<text, h>>>>)>>

\* app.py:575-644  what _run_check returns after executor.result(key)
\* answered r (outcome: the outcome of the future it popped), and whether
\* the results go to the cache.
pickup(r, outcome, cached) ==
    IF r.kind = "None"
    THEN [value |-> still_running(cached), store |-> FALSE]
    ELSE IF r.kind # "result"
    THEN \* KeyError / AssertionError out of executor.result: except Exception
         [value |-> execution_failed(r.kind, 0), store |-> FALSE]
    ELSE IF outcome.exc = "DatasourceUnavailable"
    THEN [value |-> datasource_unavailable(cached, outcome, r.future),
          store |-> FALSE]
    ELSE IF outcome.exc # None
    THEN [value |-> execution_failed(outcome.exc, r.future), store |-> FALSE]
    ELSE [value |-> JobResults(r.future, outcome.n), store |-> TRUE]

NoRun ==
    [key |-> <<"", "">>, use_cache |-> FALSE, decision |-> SCHEDULE,
     cached |-> NoEntry, submitted |-> FALSE, started |-> FALSE,
     future |-> 0, pickup |-> "none", picked |-> 0, none |-> FALSE,
     returned |-> <<>>, turn |-> 0]

\* Watchpost.run_check: a run that returned None or nothing emits nothing.
emitted(r) == IF r.none THEN <<>> ELSE r.returned

NoRefresh == [future |-> 0, value |-> <<>>]

\* The configurations of the check: with and without cache_for, scheduled
\* by an operator-written strategy together with MustRunInTargetEnvironment
\* (which rules out environment e2).
CheckDefinitions ==
    { [cache_for |-> cf,
       scheduling_strategies |->
           <<CustomStrategy, MustRunInTargetEnvironmentStrategy>>,
       environments |-> <<"e1", "e2">>] :
        cf \in {NoDuration, CacheFor} }

\* Entries the storage may hold when the application starts (stored at
\* instant 0 through CheckCache / the storage, as the tests do).
SeededCaches ==
    { EmptyMap }
    \cup { (<<"svc", "e1">> :> CacheEntry(SeededResults, 0, ttl)) :
             ttl \in {NoDuration, CacheFor} }

Init ==
    /\ checks \in [Checks -> CheckDefinitions]
    /\ now = 0
    /\ cache \in SeededCaches
    /\ run = NoRun
    /\ refresh = [k \in Keys |-> NoRefresh]
    /\ InitExecutor
    /\ ThreadsUnused
    /\ StreamUnused
    /\ OthersUnused

\* Watchpost._run_check(check, environment, use_cache=...); custom is what
\* the operator-written strategy decides this time, fast the outcome of the
\* newly started job if it is done before executor.result is called
\* (NoOutcome: it is still running then).
RunCheck(c, e, use_cache, custom, fast) ==
    LET key == <<c, e>>
        check == checks[c]
        decision == resolve_check_scheduling_decision(check, e, custom)
        got == IF use_cache THEN storage_get(cache, key, TRUE, now)
               ELSE [cache |-> cache, entry |-> NoEntry]
        cached == got.entry
        early == unscheduled(decision, cached)
        do_submit == \/ should_update_cache(check.cache_for, cached, now)
                     \/ ~can_reuse_results(cached, now)
        h == NextHandle(futures)
        sub == submit(state, key, check.cache_for = NoDuration, h)
        fast_done == sub.started /\ fast # NoOutcome
        futures1 ==
            IF sub.started
            THEN futures @@ (h :> [key |-> key, done |-> fast_done,
                                   outcome |-> fast])
            ELSE futures
        state1 == IF fast_done THEN done_callback(sub.state, key, h)
                  ELSE sub.state
        completed1 == IF fast_done
                      THEN [completed EXCEPT ![key] = Append(@, h)]
                      ELSE completed
        r == result(state1, key)
        outcome == IF r.kind = "result" THEN future_result(futures1, r.future)
                   ELSE NoOutcome
        pick == pickup(r, outcome, cached)
        base == [NoRun EXCEPT !.key = key, !.use_cache = use_cache,
                              !.decision = decision, !.cached = cached,
                              !.turn = 1 - run.turn]
    IN
    /\ e \in Range(check.environments)
    /\ (early.returns \/ ~do_submit \/ ~sub.started) => fast = NoOutcome
    /\ UNCHANGED <<checks, now, lastCall, tvars, xvars>>
    /\ IF early.returns
       THEN /\ cache' = got.cache
            /\ run' = [base EXCEPT !.none = early.none,
                                   !.returned = early.value]
            /\ UNCHANGED <<state, futures, picked, completed, refresh>>
       ELSE IF ~do_submit
       THEN \* app.py:572-573 without a submit before it
            /\ cache' = got.cache
            /\ run' = [base EXCEPT !.returned = cached.value]
            /\ UNCHANGED <<state, futures, picked, completed, refresh>>
       ELSE /\ sub.started => h <= MaxExecutions
            /\ futures' = futures1
            /\ completed' = completed1
            /\ refresh' =
                 IF cached.exists /\ is_expired(cached, now)
                 THEN [refresh EXCEPT ![key] =
                         [future |-> sub.future, value |-> cached.value]]
                 ELSE refresh
            /\ IF can_reuse_results(cached, now)
               THEN /\ state' = state1
                    /\ cache' = got.cache
                    /\ run' = [base EXCEPT !.submitted = TRUE,
                                 !.started = sub.started,
                                 !.future = sub.future,
                                 !.returned = cached.value]
                    /\ UNCHANGED picked
               ELSE /\ state' = r.state
                    /\ picked' = IF r.kind = "result"
                                 THEN [picked EXCEPT ![key] =
                                         Append(@, r.future)]
                                 ELSE picked
                    /\ cache' = IF pick.store /\ use_cache
                                THEN store_check_results(got.cache,
                                         check.cache_for, key, pick.value, now)
                                ELSE got.cache
                    /\ run' = [base EXCEPT !.submitted = TRUE,
                                 !.started = sub.started,
                                 !.future = sub.future,
                                 !.pickup = r.kind,
                                 !.picked = r.future,
                                 !.returned = pick.value]

\* What the check functions of this specification produce: two results, a
\* DatasourceUnavailable, or another exception.
CheckOutcomes == { o \in Outcomes : o.exc # None \/ o.n = 2 }

\* A worker finishes the job of future h with outcome o.
JobComplete(h, o) == ExComplete(h, o)

\* Time passes.
Tick ==
    /\ now < MaxTime
    /\ now' = now + 1
    /\ UNCHANGED <<checks, cache, run, refresh, evars, tvars, stream, xvars>>

Next ==
    \/ \E c \in Checks, e \in Envs, use_cache \in BOOLEAN,
          custom \in Decisions, fast \in CheckOutcomes \cup {NoOutcome} :
          RunCheck(c, e, use_cache, custom, fast) /\ UNCHANGED stream
    \/ \E h \in 1..MaxExecutions, o \in CheckOutcomes : JobComplete(h, o)
    \/ Tick

Spec == Init /\ [][Next]_vars

\* =====================================================================
\* SpecStream: Watchpost.run_checks, the stream of one agent request
\* =====================================================================
\* Number of run_checks calls in one behaviour.
MaxStreams == 2

\* Watchpost.checks of this specification, in list order: the check svc
\* against e1 and e2, then the check aux against e2 and e1.
StreamChecks == <<"svc", "aux">>

StreamCheckDefinitions ==
    { [c \in Range(StreamChecks) |->
         IF c = "svc"
         THEN [cache_for |-> cf,
               scheduling_strategies |->
                   <<CustomStrategy, MustRunInTargetEnvironmentStrategy>>,
               environments |-> <<"e1", "e2">>]
         ELSE [cache_for |-> NoDuration,
               scheduling_strategies |-> <<CustomStrategy>>,
               environments |-> <<"e2", "e1">>]] :
        cf \in {NoDuration, CacheFor} }

\* The checks taken from the end of the list.
RECURSIVE PairsLastCheckFirst(_, _)
PairsLastCheckFirst(cs, names) ==
    IF names = <<>> THEN <<>>
    ELSE PairsLastCheckFirst(cs, Tail(names))
         \o [i \in DOMAIN cs[Head(names)].environments |->
                <<Head(names), cs[Head(names)].environments[i]>>]

\* run_checks / run_check: every check in list order, and for each check its
\* environments in declared order.
RECURSIVE Pairs(_, _)
Pairs(cs, names) ==
    IF names = <<>> THEN <<>>
    ELSE [i \in DOMAIN cs[Head(names)].environments |->
             <<Head(names), cs[Head(names)].environments[i]>>]
         \o Pairs(cs, Tail(names))

StreamKeys == Range(StreamChecks) \X Envs

\* One ExecutionResult in the stream: the service it is for, and the result.
Yielded(key, results) ==
    [i \in DOMAIN results |-> [key |-> key, result |-> results[i]]]

\* _generate_checkmk_agent_output
AgentHeader ==
    <<[key |-> <<"check_mk", ExecutionEnvironment>>,
       result |-> ExecutionResult("OK", "Version", 0, <<>>)]>>

\* _generate_synthetic_result_outputs: the "Run checks" result
RunChecksResult(cs) ==
    <<[key |-> <<"Run checks", ExecutionEnvironment>>,
       result |-> ExecutionResult("OK", "Ran checks",
                                  Cardinality(DOMAIN cs), <<>>)]>>

NoStream == [pc |-> "idle", position |-> 0, yielded |-> <<>>, count |-> 0]

InitStream ==
    /\ checks \in StreamCheckDefinitions
    /\ now = 0
    /\ cache = EmptyMap
    /\ run = NoRun
    /\ refresh = [k \in StreamKeys |-> NoRefresh]
    /\ state = EmptyMap
    /\ futures = EmptyMap
    /\ lastCall = NoCall
    /\ picked = [k \in StreamKeys |-> <<>>]
    /\ completed = [k \in StreamKeys |-> <<>>]
    /\ stream = NoStream
    /\ ThreadsUnused
    /\ OthersUnused

\* The first next() on run_checks(): the agent header.
StreamStart ==
    /\ stream.pc = "idle"
    /\ stream.count < MaxStreams
    /\ stream' = [pc |-> "running", position |-> 1, yielded |-> AgentHeader,
                  count |-> stream.count + 1]
    /\ UNCHANGED <<evars, tvars, avars, xvars>>

\* run_check: _run_check for the next (check, environment) of the stream,
\* whose results, if any, are yielded.
StreamRun(custom, fast) ==
    LET pairs == Pairs(checks, StreamChecks) IN
    /\ stream.pc = "running"
    /\ stream.position <= Len(pairs)
    /\ RunCheck(pairs[stream.position][1], pairs[stream.position][2],
                TRUE, custom, fast)
    /\ stream' = [stream EXCEPT
                    !.position = @ + 1,
                    !.yielded = @ \o Yielded(pairs[stream.position],
                                             emitted(run'))]

\* After the last check: the synthetic results, and the generator returns.
StreamFinish ==
    /\ stream.pc = "running"
    /\ stream.position > Len(Pairs(checks, StreamChecks))
    /\ stream' = [stream EXCEPT !.pc = "done",
                                !.yielded = @ \o RunChecksResult(checks)]
    /\ UNCHANGED <<evars, tvars, avars, xvars>>

\* The next request.
StreamAgain ==
    /\ stream.pc = "done"
    /\ stream.count < MaxStreams
    /\ stream' = [stream EXCEPT !.pc = "idle", !.position = 0,
                                !.yielded = <<>>]
    /\ UNCHANGED <<evars, tvars, avars, xvars>>

NextStream ==
    \/ StreamStart
    \/ \E custom \in Decisions, fast \in CheckOutcomes \cup {NoOutcome} :
          StreamRun(custom, fast)
    \/ StreamFinish
    \/ StreamAgain
    \/ \E h \in 1..MaxExecutions, o \in CheckOutcomes : JobComplete(h, o)

SpecStream == InitStream /\ [][NextStream]_vars

\* A step that is one run of the check c against environment e: only
\* RunCheck changes run, and every RunCheck flips run.turn.
RunStep(c, e) == run'.turn # run.turn /\ run'.key = <<c, e>>

\* The job of future h has not finished.
Running(h) == h \in DOMAIN futures /\ ~futures[h].done

\* The entry a run reads from the storage before the storage drops it.
Stored(key, use_cache) ==
    IF use_cache /\ key \in DOMAIN cache THEN cache[key] ELSE NoEntry

\* C5: while the job that refreshes an expired entry is still running,
\* every run of the pair (reading the cache, decision SCHEDULE) that finds
\* no finished job returns the stale results the entry held, not the
\* placeholder.
C5_StaleWhileRefreshing ==
    \A k \in Keys :
        ( /\ run.key = k
          /\ run.use_cache
          /\ run.decision = SCHEDULE
          /\ run.pickup = "None"
          /\ Running(refresh[k].future) )
        => /\ run.returned = refresh[k].value
           /\ run.returned # <<RunningAsynchronously>>

\* C6: with cache_for = None and decision SCHEDULE every run starts a new
\* execution of the check function, also when a cached entry exists.
C6_Step ==
    \A c \in Checks, e \in Envs :
        ( /\ RunStep(c, e)
          /\ checks[c].cache_for = NoDuration
          /\ run'.decision = SCHEDULE )
        => /\ run'.submitted /\ run'.started
           /\ run'.future \notin DOMAIN futures
           /\ run'.future \in DOMAIN futures'
           /\ futures'[run'.future].key = <<c, e>>

C6_AlwaysResubmits == [][C6_Step]_vars

C6_Witness ==
    /\ run.key = <<"svc", "e1">>
    /\ checks["svc"].cache_for = NoDuration
    /\ run.decision = SCHEDULE
    /\ run.cached.exists
    /\ run.started /\ run.future = 2

\* C7: with a positive cache_for, a run that finds results stored no longer
\* than cache_for ago returns exactly them and starts no execution.
C7_Step ==
    \A c \in Checks, e \in Envs :
        LET entry == Stored(<<c, e>>, TRUE) IN
        ( /\ RunStep(c, e)
          /\ run'.use_cache
          /\ run'.decision # DONT_SCHEDULE
          /\ checks[c].cache_for > 0
          /\ entry.exists
          /\ entry.ttl = checks[c].cache_for
          /\ now - entry.added_at <= checks[c].cache_for )
        => /\ run'.returned = entry.value
           /\ emitted(run') = entry.value
           /\ ~run'.started
           /\ futures' = futures /\ state' = state
           /\ cache' = cache

C7_ReusesStoredResults == [][C7_Step]_vars

\* A run stored the results of job 1 at instant 0; the run at instant 1
\* returns them without submitting anything.
C7_Witness ==
    /\ now = CacheFor
    /\ run.decision = SCHEDULE /\ run.use_cache
    /\ run.cached = CacheEntry(JobResults(1, 2), 0, CacheFor)
    /\ run.returned = JobResults(1, 2)
    /\ ~run.submitted

\* C8: a run (decision SCHEDULE) without cached results whose job is still
\* running when it asks for the result returns exactly one UNKNOWN
\* placeholder; a run that finds a finished job returns the results of the
\* oldest finished job.
C8_Step ==
    \A c \in Checks, e \in Envs :
        LET key == <<c, e>>
            entry == Stored(key, run'.use_cache)
            finished == IF key \in DOMAIN state
                        THEN state[key].finished_futures ELSE <<>>
        IN
        ( /\ RunStep(c, e)
          /\ run'.decision = SCHEDULE
          /\ ~entry.exists )
        => /\ ( /\ finished = <<>>
                /\ run'.future \in DOMAIN futures'
                /\ ~futures'[run'.future].done )
                => /\ run'.returned = <<RunningAsynchronously>>
                   /\ Len(emitted(run')) = 1
                   /\ run'.returned[1].check_state = "UNKNOWN"
           /\ ( finished # <<>> /\ futures[Head(finished)].outcome.exc = None )
                => /\ run'.picked = Head(finished)
                   /\ run'.returned =
                        JobResults(Head(finished),
                                   futures[Head(finished)].outcome.n)

C9_Step ==
    \A c \in Checks, e \in Envs :
        LET entry == Stored(<<c, e>>, run'.use_cache) IN
        ( RunStep(c, e) /\ run'.decision = SKIP )
        => /\ entry.exists => run'.returned = entry.value
           /\ ~entry.exists =>
                /\ run'.returned = <<Unschedulable>>
                /\ Len(emitted(run')) = 1
                /\ run'.returned[1].check_state = "UNKNOWN"
           /\ futures' = futures /\ state' = state

C9_Skip == [][C9_Step]_vars

\* A SKIP run returned the results of an entry that had expired.
C9_Witness ==
    /\ run.decision = SKIP
    /\ run.cached.exists
    /\ now - run.cached.added_at > run.cached.ttl
    /\ run.cached.ttl = CacheFor
    /\ run.returned = SeededResults

\* C10: with decision DONT_SCHEDULE a run emits no ExecutionResult for the
\* pair and starts no execution.
C10_Step ==
    \A c \in Checks, e \in Envs :
        ( RunStep(c, e) /\ run'.decision = DONT_SCHEDULE )
        => /\ run'.none
           /\ emitted(run') = <<>>
           /\ futures' = futures /\ state' = state

C10_DontSchedule == [][C10_Step]_vars

C10_Witness ==
    /\ run.key = <<"svc", "e2">>
    /\ run.decision = DONT_SCHEDULE
    /\ run.none
    /\ emitted(run) = <<>>

\* C11: when the job a run picks up failed with DatasourceUnavailable, the
\* run returns the results of the cache entry it read, each with the
\* exception text appended to its details; without an entry it returns
\* exactly one UNKNOWN result whose summary is the exception message.
C11_Step ==
    \A c \in Checks, e \in Envs :
        LET entry == Stored(<<c, e>>, run'.use_cache)
            h == run'.picked
            text == <<"DatasourceUnavailable", h>>
        IN
        ( /\ RunStep(c, e)
          /\ run'.pickup = "result"
          /\ futures'[h].outcome.exc = "DatasourceUnavailable" )
        => /\ entry.exists =>
                /\ Len(run'.returned) = Len(entry.value)
                /\ \A i \in DOMAIN entry.value :
                      /\ run'.returned[i].check_state
                            = entry.value[i].check_state
                      /\ run'.returned[i].summary = entry.value[i].summary
                      /\ run'.returned[i].details
                            = entry.value[i].details \o <<text>>
           /\ ~entry.exists =>
                /\ Len(emitted(run')) = 1
                /\ run'.returned[1].check_state = "UNKNOWN"
                /\ run'.returned[1].summary = text

C11_DatasourceUnavailable == [][C11_Step]_vars

\* The job of a run that had read an expired entry failed with
\* DatasourceUnavailable, and the run returned the enriched entry.
C11_Witness ==
    /\ run.pickup = "result"
    /\ run.cached.exists
    /\ futures[run.picked].outcome.exc = "DatasourceUnavailable"
    /\ run.returned[1].summary = <<"Cached result", 0>>
    /\ run.returned[1].details = <<<<"DatasourceUnavailable", run.picked>>>>

\* C12: when the job a run picks up failed with an error other than
\* DatasourceUnavailable, the run emits exactly one CRIT ExecutionResult
\* for its (check, environment); run_checks yields it, goes on with the
\* next pair, and a stream that ends has processed every pair and ends
\* with the "Run checks" result.
C12_Step ==
    LET h == run'.picked
        crit == ExecutionResult("CRIT", "Exception", h,
                                <<<<"Exception", h>>>>)
    IN
    ( /\ run'.turn # run.turn
      /\ run'.pickup = "result"
      /\ futures'[h].outcome.exc = "Exception" )
    => /\ emitted(run') = <<crit>>
       /\ stream'.yielded
            = stream.yielded \o <<[key |-> run'.key, result |-> crit]>>
       /\ stream'.pc = "running"
       /\ stream'.position = stream.position + 1

C12_Ends ==
    stream.pc = "done"
    => /\ stream.position = Len(Pairs(checks, StreamChecks)) + 1
       /\ stream.yielded[Len(stream.yielded)] = RunChecksResult(checks)[1]
       /\ \A i \in 1..(Len(stream.yielded) - 1) :
             stream.yielded[i].key[1] # "Run checks"

C13_Step ==
    /\ \A h \in DOMAIN futures :
          /\ h \in DOMAIN futures'
          /\ futures'[h].key = futures[h].key
          /\ futures[h].done => futures'[h] = futures[h]
          /\ ~futures'[h].done =>
                /\ futures[h].key \in DOMAIN state'
                /\ h \in Range(state'[futures[h].key].active_futures)
    /\ \A k \in Keys :
          /\ Len(picked'[k]) <= Len(picked[k]) + 1
          /\ (run'.turn = run.turn \/ run'.key # k) => picked'[k] = picked[k]
          /\ (run'.turn # run.turn /\ run'.key = k /\ run'.pickup = "None")
                => /\ picked'[k] = picked[k]
                   /\ k \in DOMAIN state'
                   /\ \E h \in Range(state'[k].active_futures) :
                         ~futures'[h].done

C13_NoCancelOnePickup == [][C13_Step]_vars

\* The run that started job 1 returned while the job was running; the job
\* has finished since and waits for the next run.
C13_Witness ==
    /\ run.pickup = "None" /\ run.started /\ run.future = 1
    /\ futures[1].done
    /\ run.key \in DOMAIN state
    /\ 1 \in Range(state[run.key].finished_futures)

\* =====================================================================
\* SpecCapture: the stdout capture of checks executing at the same time
\* =====================================================================
\* Number of lines one check execution prints.
MaxWrites == 2

\* Two worker threads of the pool, each executing one check
\* (Check.run_sync); stderr is redirected the same way as stdout.
Workers == {"w1", "w2"}

\* sys.stdout before any redirection.
RealStdout == "sys.__stdout__"

\* The io.StringIO of a check execution is named after its worker.
NoWorker ==
    [pc |-> "start", old_target |-> RealStdout, written |-> 0,
     stdout |-> <<>>]

InitCapture ==
    /\ capture = [sys_stdout |-> RealStdout,
                  buffers |-> [w \in Workers |-> <<>>],
                  leaked |-> <<>>,
                  workers |-> [w \in Workers |-> NoWorker]]
    /\ InitExecutor
    /\ ThreadsUnused
    /\ AppUnused
    /\ VerifyUnused
    /\ RestUnused

\* contextlib.redirect_stdout.__enter__: remember sys.stdout, replace it.
redirect_enter(cap, w) ==
    [cap EXCEPT !.workers[w].pc = "inside",
                !.workers[w].old_target = cap.sys_stdout,
                !.sys_stdout = w]

\* The check function writes a line: it goes to what sys.stdout is now.
stdout_write(cap, w) ==
    LET target == cap.sys_stdout
        cap1 == [cap EXCEPT !.workers[w].written = @ + 1]
    IN  IF target = RealStdout
        THEN [cap1 EXCEPT !.leaked = Append(@, w)]
        ELSE [cap1 EXCEPT !.buffers[target] = Append(@, w)]

\* contextlib.redirect_stdout.__exit__ and, after it,
\* _normalize_and_materialize_results reading the StringIO.
redirect_exit(cap, w) ==
    [cap EXCEPT !.workers[w].pc = "done",
                !.sys_stdout = cap.workers[w].old_target,
                !.workers[w].stdout = cap.buffers[w]]

CaptureRest == UNCHANGED <<evars, tvars, avars, stream, app, zvars>>

CheckEnter(w) ==
    /\ capture.workers[w].pc = "start"
    /\ capture' = redirect_enter(capture, w)
    /\ CaptureRest

CheckPrint(w) ==
    /\ capture.workers[w].pc = "inside"
    /\ capture.workers[w].written < MaxWrites
    /\ capture' = stdout_write(capture, w)
    /\ CaptureRest

CheckExit(w) ==
    /\ capture.workers[w].pc = "inside"
    /\ capture' = redirect_exit(capture, w)
    /\ CaptureRest

NextCapture ==
    \E w \in Workers : CheckEnter(w) \/ CheckPrint(w) \/ CheckExit(w)

SpecCapture == InitCapture /\ [][NextCapture]_vars

\* C14: the stdout attached to a check's results is exactly what its own
\* execution printed: no line of the other execution, none of its own
\* missing.
C14_OwnOutputOnly ==
    \A w \in Workers :
        capture.workers[w].pc = "done"
        => /\ \A i \in DOMAIN capture.workers[w].stdout :
                 capture.workers[w].stdout[i] = w
           /\ Len(capture.workers[w].stdout) = capture.workers[w].written

\* =====================================================================
\* SpecStrategies: resolving and aggregating scheduling strategies
\* =====================================================================
MustRunInGivenExecutionEnvironmentStrategy(envs) ==
    Strategy("MustRunInGivenExecutionEnvironment", envs)

MustRunAgainstGivenTargetEnvironmentStrategy(envs) ==
    Strategy("MustRunAgainstGivenTargetEnvironment", envs)

\* The strategies a check or a datasource of this specification declares.
Strategies ==
    { MustRunInGivenExecutionEnvironmentStrategy({"e1"}),
      MustRunInGivenExecutionEnvironmentStrategy({"e2"}),
      MustRunAgainstGivenTargetEnvironmentStrategy({"e2"}),
      MustRunAgainstGivenTargetEnvironmentStrategy({"e1", "e2"}),
      MustRunInTargetEnvironmentStrategy,
      CustomStrategy }

\* Length of the longest strategy list a check declares.
MaxStrategies == 2

StrategyLists(n) == UNION { [1..k -> Strategies] : k \in 0..n }

\* reduce(set.intersection, sets) over a non-empty list of sets
RECURSIVE Intersection(_)
Intersection(sets) ==
    IF Len(sets) = 1 THEN sets[1]
    ELSE sets[1] \cap Intersection(Tail(sets))

\* DetectImpossibleCombinationStrategy._filter_strategies, the env sets
FilterStrategies(strategies, kind) ==
    LET RECURSIVE filter(_)
        filter(ss) ==
            IF ss = <<>> THEN <<>>
            ELSE IF Head(ss).kind = kind
                 THEN <<Head(ss).envs>> \o filter(Tail(ss))
                 ELSE filter(Tail(ss))
    IN  filter(strategies)

\* A validation that wants the targets to be identical to the declared
\* environments.
detect_raises_identical(strategies, environments) ==
    LET given == FilterStrategies(strategies,
                                  "MustRunInGivenExecutionEnvironment")
        against == FilterStrategies(strategies,
                                    "MustRunAgainstGivenTargetEnvironment")
        current == FilterStrategies(strategies,
                                    "MustRunInTargetEnvironment") # <<>>
    IN  IF given # <<>> /\ Intersection(given) = {}
        THEN TRUE
        ELSE IF against # <<>> /\ Intersection(against) # Range(environments)
        THEN TRUE
        ELSE /\ current
             /\ given # <<>> /\ against # <<>>
             /\ Intersection(against) # {}
             /\ Intersection(given) \cap Intersection(against) = {}

\* DetectImpossibleCombinationStrategy.schedule: whether it raises
\* InvalidCheckConfiguration (otherwise it returns SCHEDULE).
detect_raises(strategies, environments) ==
    LET given == FilterStrategies(strategies,
                                  "MustRunInGivenExecutionEnvironment")
        against == FilterStrategies(strategies,
                                    "MustRunAgainstGivenTargetEnvironment")
        current == FilterStrategies(strategies,
                                    "MustRunInTargetEnvironment") # <<>>
    IN  IF given # <<>> /\ Intersection(given) = {}
        THEN TRUE
        ELSE IF /\ against # <<>>
                /\ ~(Range(environments) \subseteq Intersection(against))
        THEN TRUE
        ELSE /\ current
             /\ given # <<>> /\ against # <<>>
             /\ Intersection(against) # {}
             /\ Intersection(given) \cap Intersection(against) = {}

\* Watchpost._resolve_scheduling_strategies: the check's own strategies,
\* those of its datasources, the application defaults.
resolved_strategies(own, of_datasources, defaults) ==
    own \o of_datasources \o defaults

\* Watchpost._resolve_check_scheduling_decision, the exception of
\* DetectImpossibleCombinationStrategy included.
decide(strategies, environments, target_environment, custom) ==
    IF /\ \E i \in DOMAIN strategies :
             strategies[i].kind = "DetectImpossibleCombination"
       /\ detect_raises(strategies, environments)
    THEN [raised |-> TRUE, decision |-> SCHEDULE]
    ELSE [raised |-> FALSE,
          decision |-> final_decision(strategies, SCHEDULE,
                                      target_environment, custom)]

NoDecision ==
    [check |-> "", target_environment |-> "", custom |-> SCHEDULE,
     strategies |-> <<>>,
     raised |-> FALSE, decision |-> SCHEDULE, turn |-> 0]

InitStrategies ==
    /\ checks \in
          [Checks ->
             { [cache_for |-> NoDuration, scheduling_strategies |-> own,
                datasource_strategies |-> ds, environments |-> envs] :
                 own \in StrategyLists(MaxStrategies),
                 ds \in StrategyLists(1),
                 envs \in {<<"e1">>, <<"e2">>, <<"e1", "e2">>} }]
    /\ app = NoDecision
    /\ now = 0
    /\ cache = EmptyMap
    /\ run = EmptyMap
    /\ refresh = EmptyMap
    /\ InitExecutor
    /\ ThreadsUnused
    /\ StreamUnused
    /\ CaptureUnused
    /\ RestUnused

\* The decision for check c against target environment e, as
\* verify_check_scheduling and _run_check ask for it.
Decide(c, e, custom) ==
    LET check == checks[c]
        strategies == resolved_strategies(check.scheduling_strategies,
                                          check.datasource_strategies,
                                          default_scheduling_strategies)
        d == decide(strategies, check.environments, e, custom)
    IN  /\ e \in Range(check.environments)
        /\ app' = [check |-> c, target_environment |-> e, custom |-> custom,
                   strategies |-> strategies, raised |-> d.raised,
                   decision |-> d.decision, turn |-> 1 - app.turn]
        /\ UNCHANGED <<evars, tvars, avars, stream, capture, zvars>>

NextStrategies ==
    \E c \in Checks, e \in Envs, custom \in Decisions : Decide(c, e, custom)

SpecStrategies == InitStrategies /\ [][NextStrategies]_vars

\* What each strategy of the last decision answered.
Answers ==
    { schedule(app.strategies[i], ExecutionEnvironment,
               app.target_environment, app.custom) :
        i \in DOMAIN app.strategies }

\* C16: the decision for a (check, environment) is the maximum, in the
\* order SCHEDULE < SKIP < DONT_SCHEDULE, of what the resolved strategies
\* answer (the check's own, its datasources', the defaults), whatever their
\* order: DONT_SCHEDULE if any answers it, else SKIP if any answers it,
\* else SCHEDULE.
C16_DecisionIsMax ==
    (app.check \in Checks /\ ~app.raised)
    => /\ Range(app.strategies)
            = Range(checks[app.check].scheduling_strategies)
              \cup Range(checks[app.check].datasource_strategies)
              \cup Range(default_scheduling_strategies)
       /\ \A d \in Answers : app.decision >= d
       /\ app.decision \in Answers
       /\ app.decision =
            IF DONT_SCHEDULE \in Answers THEN DONT_SCHEDULE
            ELSE IF SKIP \in Answers THEN SKIP
            ELSE SCHEDULE

\* A strategy answering SKIP is evaluated after one answering
\* DONT_SCHEDULE, and the decision is DONT_SCHEDULE.
C16_Witness ==
    /\ app.check \in Checks /\ ~app.raised
    /\ app.decision = DONT_SCHEDULE
    /\ \E i, j \in DOMAIN app.strategies :
          /\ i < j
          /\ schedule(app.strategies[i], ExecutionEnvironment,
                      app.target_environment, app.custom) = DONT_SCHEDULE
          /\ schedule(app.strategies[j], ExecutionEnvironment,
                      app.target_environment, app.custom) = SKIP

\* The environments every strategy of the given kind allows.
Allowed(kind) ==
    { e \in Envs :
        \A i \in DOMAIN app.strategies :
            app.strategies[i].kind = kind => e \in app.strategies[i].envs }

\* C17: DetectImpossibleCombination raises exactly when (a) no execution
\* environment is allowed by every MustRunInGivenExecutionEnvironment, or
\* (b) some declared environment of the check is not allowed by every
\* MustRunAgainstGivenTargetEnvironment, or (c) both sets are non-empty, a
\* MustRunInTargetEnvironment is present and the sets are disjoint;
\* otherwise it answers SCHEDULE.
C17_DetectRaisesExactly ==
    app.check \in Checks
    => LET exec == Allowed("MustRunInGivenExecutionEnvironment")
           target == Allowed("MustRunAgainstGivenTargetEnvironment")
           current == \E i \in DOMAIN app.strategies :
                         app.strategies[i].kind = "MustRunInTargetEnvironment"
           a == exec = {}
           b == ~(Range(checks[app.check].environments) \subseteq target)
           c == exec # {} /\ target # {} /\ current /\ exec \cap target = {}
       IN  /\ app.raised <=> (a \/ b \/ c)
           /\ ~app.raised =>
                schedule(DetectImpossibleCombinationStrategy,
                         ExecutionEnvironment, app.target_environment,
                         app.custom) = SCHEDULE

\* Raised for reason (c) alone.
C17_Witness ==
    /\ app.check \in Checks /\ app.raised
    /\ Allowed("MustRunInGivenExecutionEnvironment") = {"e1"}
    /\ Allowed("MustRunAgainstGivenTargetEnvironment") = {"e2"}
    /\ checks[app.check].environments = <<"e2">>

\* ------------------------------------------------ datasource resolution
\* The datasource classes: Datasource and DatasourceFactory at once.
DatasourceTypes == {"Env1Datasource", "UninstantiableDatasource"}

\* __init__ and new of the datasource classes: whether building one
\* succeeds in the given execution environment (otherwise RuntimeError).
instantiable(datasource_type, execution_environment) ==
    /\ datasource_type = "Env1Datasource"
    /\ execution_environment = "e1"

\* The class attribute scheduling_strategies of the datasource classes,
\* which an instance shows as well.
class_scheduling_strategies(datasource_type) ==
    <<MustRunInTargetEnvironmentStrategy>>

\* The type hint of a parameter of a check function.
Hint(kind, type) == [kind |-> kind, type |-> type]

Parameter(name, hint) == [name |-> name, hint |-> hint]

\* The parameter lists of the check functions of this specification.
CheckFunctions ==
    { <<>>,
      <<Parameter("environment", Hint("Environment", None))>>,
      <<Parameter("ds", Hint("Datasource", "Env1Datasource"))>>,
      <<Parameter("ds", Hint("Datasource", "UninstantiableDatasource"))>>,
      <<Parameter("ds", Hint("FromFactory", "Env1Datasource"))>>,
      <<Parameter("ds", Hint("FromFactory", "UninstantiableDatasource"))>>,
      <<Parameter("x", Hint("Unannotated", None))>>,
      <<Parameter("x", Hint("Unsupported", None))>>,
      <<Parameter("ds", Hint("Datasource", "Env1Datasource")),
        Parameter("x", Hint("Unannotated", None))>> }

\* FromFactory.cache_key for a factory, and the class itself as the key of
\* a directly registered datasource.
CacheKey(factory, type) == [factory |-> factory, type |-> type]

\* No call of the application yet.
NoAppCall ==
    [op |-> "", force |-> FALSE, raised |-> FALSE, evaluated |-> {},
     constructed |-> {}, turn |-> 0]

\* Watchpost.__init__: the resolver maps are empty, nothing is verified.
\* instances holds the descriptors whose _instance is set.
NewWatchpost ==
    [datasource_definitions |-> {},
     datasource_factories |-> {},
     instantiable_datasources |-> EmptyMap,
     resolved_instantiable_datasources |-> EmptyMap,
     resolved_strategies |-> EmptyMap,
     instances |-> {},
     check_scheduling_verified |-> FALSE,
     call |-> NoAppCall]

\* _InstantiableDatasource.instance for the descriptor id, asked for on
\* behalf of check c against target environment e.
instance(s, id, c, e) ==
    IF id \in s.instances
    THEN [s |-> s, raised |-> FALSE]
    ELSE LET s1 == [s EXCEPT !.call.constructed =
                        @ \cup {[datasource |-> id.type, check |-> c,
                                 target_environment |-> e]}]
         IN  IF instantiable(id.type, ExecutionEnvironment)
             THEN [s |-> [s1 EXCEPT !.instances = @ \cup {id}],
                   raised |-> FALSE]
             ELSE [s |-> s1, raised |-> TRUE]

\* _InstantiableDatasource.scheduling_strategies: a descriptor of a factory
\* tries to build its instance and swallows the failure.
scheduling_strategies(s, id, c, e) ==
    IF id \in s.instances
    THEN [s |-> s, value |-> class_scheduling_strategies(id.type)]
    ELSE IF id.factory
    THEN [s |-> instance(s, id, c, e).s,
          value |-> class_scheduling_strategies(id.type)]
    ELSE [s |-> s, value |-> class_scheduling_strategies(id.type)]

\* Watchpost._resolve_instantiable_datasource_from_factory
resolve_instantiable_datasource_from_factory(s, type_key) ==
    LET factory_cache_key == CacheKey(TRUE, type_key) IN
    IF factory_cache_key \in DOMAIN s.instantiable_datasources
    THEN [s |-> s, value |-> s.instantiable_datasources[factory_cache_key],
          raised |-> FALSE]
    ELSE IF type_key \in s.datasource_factories
    THEN [s |-> [s EXCEPT !.instantiable_datasources =
                    (factory_cache_key :> factory_cache_key) @@ @],
          value |-> factory_cache_key, raised |-> FALSE]
    ELSE [s |-> s, value |-> factory_cache_key, raised |-> TRUE]

\* body applied to the value of v, which is computed once.
With(v, body(_)) == CHOOSE x \in { body(y) : y \in {v} } : TRUE

\* Watchpost._resolve_instantiable_datasource
resolve_instantiable_datasource(s, datasource_type) ==
    LET key == CacheKey(FALSE, datasource_type) IN
    IF key \in DOMAIN s.instantiable_datasources
    THEN [s |-> s, value |-> s.instantiable_datasources[key],
          raised |-> FALSE]
    ELSE IF datasource_type \notin s.datasource_definitions
    THEN With(resolve_instantiable_datasource_from_factory(
                  s, datasource_type),
              LAMBDA r :
                IF r.raised THEN r
                ELSE [s |-> [r.s EXCEPT !.instantiable_datasources =
                                (key :> r.value) @@ @],
                      value |-> r.value, raised |-> FALSE])
    ELSE [s |-> [s EXCEPT !.instantiable_datasources = (key :> key) @@ @],
          value |-> key, raised |-> FALSE]

\* The loop of _resolve_datasources over check.type_hints.
RECURSIVE resolve_type_hints(_, _, _)
resolve_type_hints(s, parameters, instantiable_datasources) ==
    IF parameters = <<>>
    THEN [s |-> s, value |-> instantiable_datasources, raised |-> FALSE]
    ELSE LET p == Head(parameters) IN
         CASE p.hint.kind \in {"FromFactory", "Datasource"} ->
                With(IF p.hint.kind = "FromFactory"
                     THEN resolve_instantiable_datasource_from_factory(
                              s, p.hint.type)
                     ELSE resolve_instantiable_datasource(s, p.hint.type),
                     LAMBDA r :
                       IF r.raised
                       THEN [s |-> r.s, value |-> instantiable_datasources,
                             raised |-> TRUE]
                       ELSE resolve_type_hints(
                                r.s, Tail(parameters),
                                (p.name :> r.value)
                                @@ instantiable_datasources))
           [] p.hint.kind \in {"Environment", "Unannotated"} ->
                resolve_type_hints(s, Tail(parameters),
                                   instantiable_datasources)
           [] OTHER ->
                [s |-> s, value |-> instantiable_datasources,
                 raised |-> TRUE]

\* Watchpost._resolve_datasources: an empty memoized dict is falsy.
resolve_datasources(s, c) ==
    IF /\ c \in DOMAIN s.resolved_instantiable_datasources
       /\ s.resolved_instantiable_datasources[c] # EmptyMap
    THEN [s |-> s, value |-> s.resolved_instantiable_datasources[c],
          raised |-> FALSE]
    ELSE With(resolve_type_hints(s, checks[c].parameters, EmptyMap),
              LAMBDA r :
                IF r.raised THEN r
                ELSE [s |-> [r.s EXCEPT !.resolved_instantiable_datasources =
                                (c :> r.value) @@ @],
                      value |-> r.value, raised |-> FALSE])

\* The strategies of the resolved datasources of a check, in the order of
\* the parameters (the loop of _resolve_scheduling_strategies).
RECURSIVE datasource_strategies(_, _, _, _, _)
datasource_strategies(s, names, datasources, c, e) ==
    IF names = <<>> THEN [s |-> s, value |-> <<>>]
    ELSE IF Head(names) \notin DOMAIN datasources
    THEN datasource_strategies(s, Tail(names), datasources, c, e)
    ELSE With(scheduling_strategies(s, datasources[Head(names)], c, e),
              LAMBDA r :
                With(datasource_strategies(r.s, Tail(names), datasources,
                                           c, e),
                     LAMBDA rest :
                       [s |-> rest.s, value |-> r.value \o rest.value]))

ParameterNames(check) ==
    [i \in DOMAIN check.parameters |-> check.parameters[i].name]

\* Watchpost._resolve_scheduling_strategies with its memo; the check's
\* datasources were resolved by the caller.
resolve_scheduling_strategies_memo(s, c, e) ==
    IF /\ c \in DOMAIN s.resolved_strategies
       /\ s.resolved_strategies[c] # <<>>
    THEN [s |-> s, value |-> s.resolved_strategies[c]]
    ELSE With(resolve_datasources(s, c),
              LAMBDA d :
                With(datasource_strategies(d.s, ParameterNames(checks[c]),
                                           d.value, c, e),
                     LAMBDA r :
                       With(checks[c].scheduling_strategies \o r.value
                            \o default_scheduling_strategies,
                            LAMBDA strategies :
                              [s |-> [r.s EXCEPT !.resolved_strategies =
                                         (c :> strategies) @@ @],
                               value |-> strategies])))

\* Watchpost._resolve_check_scheduling_decision on the application state
scheduling_decision(s, c, e) ==
    With(resolve_scheduling_strategies_memo(s, c, e),
         LAMBDA r :
           With(decide(r.value, checks[c].environments, e, SCHEDULE),
                LAMBDA d :
                  [s |-> r.s, raised |-> d.raised, decision |-> d.decision]))

\* A test of the parameter names that accepts every check function.
parameters_available_always(check, datasources) == TRUE

\* verify_check_scheduling, the superset test: the names the application
\* can pass cover the parameters of the check function.
parameters_available(check, datasources) ==
    Range(ParameterNames(check)) \subseteq {"environment"} \cup DOMAIN datasources

\* The loop of verify_check_scheduling over check.environments
RECURSIVE verify_environments(_, _, _, _)
verify_environments(s, c, environments, datasources) ==
    IF environments = <<>> THEN [s |-> s, raised |-> FALSE]
    ELSE With(scheduling_decision(s, c, Head(environments)),
              LAMBDA d :
                With(verify_environments(d.s, c, Tail(environments),
                                         datasources),
                     LAMBDA rest :
                       [s |-> rest.s,
                        raised |->
                          \/ ~parameters_available(checks[c], datasources)
                          \/ d.raised
                          \/ rest.raised]))

\* verify_check_scheduling, the body of the loop over self.checks
verify_check(s, c) ==
    With(resolve_datasources([s EXCEPT !.call.evaluated = @ \cup {c}], c),
         LAMBDA d :
           IF d.raised THEN [s |-> d.s, raised |-> TRUE]
           ELSE verify_environments(d.s, c, checks[c].environments,
                                    d.value))

\* The loop of verify_check_scheduling over self.checks
RECURSIVE verify_checks(_, _)
verify_checks(s, cs) ==
    IF cs = <<>> THEN [s |-> s, raised |-> FALSE]
    ELSE With(verify_check(s, Head(cs)),
              LAMBDA r :
                With(verify_checks(r.s, Tail(cs)),
                     LAMBDA rest :
                       [s |-> rest.s, raised |-> r.raised \/ rest.raised]))

\* A guard that also lets a forced call return early.
skip_verification_forced(check_scheduling_verified, force) ==
    check_scheduling_verified

\* verify_check_scheduling, the early return
skip_verification(check_scheduling_verified, force) ==
    check_scheduling_verified /\ ~force

\* Watchpost.verify_check_scheduling
verify_check_scheduling(s, force) ==
    IF skip_verification(s.check_scheduling_verified, force)
    THEN [s |-> s, raised |-> FALSE]
    ELSE With(verify_checks(s, StreamChecks),
              LAMBDA r :
                IF r.raised THEN r
                ELSE [s |-> [r.s EXCEPT !.check_scheduling_verified = TRUE],
                      raised |-> FALSE])

\* _run_check, the dict of instances: every datasource of the check is
\* built.
RECURSIVE instantiate_datasources(_, _, _, _, _)
instantiate_datasources(s, names, datasources, c, e) ==
    IF names = <<>> THEN [s |-> s, raised |-> FALSE]
    ELSE IF Head(names) \notin DOMAIN datasources
    THEN instantiate_datasources(s, Tail(names), datasources, c, e)
    ELSE With(instance(s, datasources[Head(names)], c, e),
              LAMBDA r :
                IF r.raised THEN r
                ELSE instantiate_datasources(r.s, Tail(names), datasources,
                                             c, e))

\* The loop of run_check over check.environments, as far as it resolves
\* and builds datasources; fresh: the results of the cache are not reused.
RECURSIVE run_environments(_, _, _, _, _)
run_environments(s, c, environments, datasources, fresh) ==
    IF environments = <<>> THEN [s |-> s, raised |-> FALSE]
    ELSE With(scheduling_decision(s, c, Head(environments)),
              LAMBDA d :
                IF d.raised THEN [s |-> d.s, raised |-> TRUE]
                ELSE With(IF d.decision = SCHEDULE /\ fresh
                          THEN instantiate_datasources(
                                   d.s, ParameterNames(checks[c]),
                                   datasources, c, Head(environments))
                          ELSE [s |-> d.s, raised |-> FALSE],
                          LAMBDA r :
                            IF r.raised THEN r
                            ELSE run_environments(r.s, c,
                                                  Tail(environments),
                                                  datasources, fresh)))

\* Watchpost.run_check, the resolution and the building of datasources
run_check(s, c, fresh) ==
    With(resolve_datasources(s, c),
         LAMBDA d :
           IF d.raised THEN [s |-> d.s, raised |-> TRUE]
           ELSE run_environments(d.s, c, checks[c].environments, d.value,
                                 fresh))

\* The loop of run_checks over self.checks
RECURSIVE run_all(_, _, _)
run_all(s, cs, fresh) ==
    IF cs = <<>> THEN [s |-> s, raised |-> FALSE]
    ELSE With(run_check(s, Head(cs), fresh),
              LAMBDA r :
                IF r.raised THEN r ELSE run_all(r.s, Tail(cs), fresh))

\* Watchpost.run_checks: verification first, then every check.
run_checks(s, fresh) ==
    With(verify_check_scheduling(s, FALSE),
         LAMBDA v :
           IF v.raised THEN v ELSE run_all(v.s, StreamChecks, fresh))

\* ----------------------------------------------------------- SpecVerify
\* An application with the two checks of StreamChecks, whose datasources
\* and factories are registered after construction.
VerifyCheckDefinitions ==
    { [cache_for |-> NoDuration, scheduling_strategies |-> <<>>,
       parameters |-> ps, environments |-> envs] :
         ps \in CheckFunctions,
         envs \in {<<>>, <<"e1">>, <<"e2">>, <<"e1", "e2">>} }

AuxCheckDefinitions ==
    { d \in VerifyCheckDefinitions :
        /\ d.environments = <<"e1">>
        /\ d.parameters \in
              { <<>>,
                <<Parameter("ds", Hint("Datasource", "Env1Datasource"))>> } }

InitVerify ==
    /\ checks \in
          { ("svc" :> svc) @@ ("aux" :> aux) :
              svc \in VerifyCheckDefinitions, aux \in AuxCheckDefinitions }
    /\ app = NewWatchpost
    /\ capture = EmptyMap
    /\ RestUnused
    /\ now = 0
    /\ cache = EmptyMap
    /\ run = EmptyMap
    /\ refresh = EmptyMap
    /\ InitExecutor
    /\ ThreadsUnused
    /\ StreamUnused

\* The application with the record of the call op that led to state s.
Called(s, op, force, raised) ==
    [s EXCEPT !.call.op = op, !.call.force = force, !.call.raised = raised,
              !.call.turn = 1 - app.call.turn]

Fresh(s) == [s EXCEPT !.call.evaluated = {}, !.call.constructed = {}]

\* The application after a registration.
Registered(s, op) ==
    [Fresh(s) EXCEPT !.call.op = op, !.call.force = FALSE,
                     !.call.raised = FALSE]

VerifyRest == UNCHANGED <<evars, tvars, avars, stream, capture, zvars>>

\* Watchpost.register_datasource
RegisterDatasource(datasource_type) ==
    /\ datasource_type \notin app.datasource_definitions
    /\ app' = Registered([app EXCEPT !.datasource_definitions =
                             @ \cup {datasource_type}],
                         "register_datasource")
    /\ VerifyRest

\* Watchpost.register_datasource_factory
RegisterDatasourceFactory(factory_type) ==
    /\ factory_type \notin app.datasource_factories
    /\ app' = Registered([app EXCEPT !.datasource_factories =
                             @ \cup {factory_type}],
                         "register_datasource_factory")
    /\ VerifyRest

VerifyCheckScheduling(force) ==
    \E r \in {verify_check_scheduling(Fresh(app), force)} :
        /\ app' = Called(r.s, "verify_check_scheduling", force, r.raised)
        /\ VerifyRest

RunOneCheck(c, fresh) ==
    \E r \in {run_check(Fresh(app), c, fresh)} :
        /\ app' = Called(r.s, "run_check", FALSE, r.raised)
        /\ VerifyRest

RunAllChecks(fresh) ==
    \E r \in {run_checks(Fresh(app), fresh)} :
        /\ app' = Called(r.s, "run_checks", FALSE, r.raised)
        /\ VerifyRest

NextVerify ==
    \/ \E d \in DatasourceTypes : RegisterDatasource(d)
    \/ \E d \in DatasourceTypes : RegisterDatasourceFactory(d)
    \/ \E force \in BOOLEAN : VerifyCheckScheduling(force)
    \/ \E c \in Range(StreamChecks), fresh \in BOOLEAN : RunOneCheck(c, fresh)
    \/ \E fresh \in BOOLEAN : RunAllChecks(fresh)

SpecVerify == InitVerify /\ [][NextVerify]_vars

\* A call of verify_check_scheduling, run_check or run_checks is the step.
VerifyStep == app'.call.turn # app.call.turn
                 /\ app'.call.op = "verify_check_scheduling"

ResolvingStep ==
    /\ app'.call.turn # app.call.turn
    /\ app'.call.op \in {"verify_check_scheduling", "run_check", "run_checks"}

\* The strategies check c ends up with: those of the classes of its
\* datasource parameters, then the defaults.
ClassStrategies(c) ==
    LET RECURSIVE of(_)
        of(ps) ==
            IF ps = <<>> THEN <<>>
            ELSE IF Head(ps).hint.kind \in {"Datasource", "FromFactory"}
                 THEN class_scheduling_strategies(Head(ps).hint.type)
                      \o of(Tail(ps))
                 ELSE of(Tail(ps))
    IN  checks[c].scheduling_strategies \o of(checks[c].parameters)
        \o default_scheduling_strategies

\* Whether check c is scheduled against e in the execution environment.
Scheduled(c, e) ==
    LET d == decide(ClassStrategies(c), checks[c].environments, e, SCHEDULE)
    IN  ~d.raised /\ d.decision = SCHEDULE

\* C15: a datasource that cannot be instantiated in the current execution
\* environment is never constructed, neither by verify_check_scheduling
\* nor by a run, for a check whose scheduling decision there is not
\* SCHEDULE, whether it is registered directly or created by a factory.
C15_NeverBuiltUnscheduled ==
    \A x \in app.call.constructed :
        ~instantiable(x.datasource, ExecutionEnvironment)
        => Scheduled(x.check, x.target_environment)

\* The parameters of check c are covered by "environment" and the names
\* of its resolved datasources.
Satisfiable(c) ==
    /\ c \in DOMAIN app.resolved_instantiable_datasources
    /\ \A i \in DOMAIN checks[c].parameters :
          checks[c].parameters[i].name \in
              {"environment"}
              \cup DOMAIN app.resolved_instantiable_datasources[c]

Verified ==
    /\ app.call.op = "verify_check_scheduling"
    /\ ~app.call.raised

\* C18 as stated: after verify_check_scheduling returns without raising,
\* the parameters of every check of the application are satisfiable.
C18_ParametersSatisfiable ==
    Verified => \A c \in DOMAIN checks : Satisfiable(c)

\* C18: after verify_check_scheduling returns without raising, every
\* parameter name of every check that declares at least one environment
\* is "environment" or the name of one of the check's resolved
\* datasources; otherwise the call raised.
C18_ParametersSatisfiableDeclared ==
    Verified => \A c \in DOMAIN checks :
                    checks[c].environments # <<>> => Satisfiable(c)

\* A verification that evaluated the checks and accepted one with a
\* datasource parameter.
C18_Witness ==
    /\ Verified
    /\ app.call.evaluated = DOMAIN checks
    /\ checks["svc"].environments # <<>>
    /\ "ds" \in DOMAIN app.resolved_instantiable_datasources["svc"]

C19_Step ==
    VerifyStep =>
        /\ (app.check_scheduling_verified /\ ~app'.call.force)
             => /\ app'.call.evaluated = {}
                /\ ~app'.call.raised
                /\ app'.check_scheduling_verified
        /\ (~app.check_scheduling_verified \/ app'.call.force)
             => app'.call.evaluated = DOMAIN checks
        /\ app'.call.raised
             => app'.check_scheduling_verified = app.check_scheduling_verified
        /\ (~app'.call.raised) => app'.check_scheduling_verified

C19_RunChecksStep ==
    (app'.call.turn # app.call.turn /\ app'.call.op = "run_checks")
    => (app'.call.evaluated = {}) = app.check_scheduling_verified

\* C19: once verify_check_scheduling has completed without error, a later
\* call with force=false (that of run_checks included) returns without
\* evaluating any check; a call that raised leaves the application as
\* unverified as it was, so that the next call evaluates every check;
\* with force=true every check is evaluated again.
C19_IdempotentUnlessForced ==
    [][C19_Step /\ C19_RunChecksStep]_vars

\* A call without force that returned at once.
C19_Witness ==
    /\ app.call.op = "verify_check_scheduling"
    /\ ~app.call.force
    /\ app.check_scheduling_verified
    /\ app.call.evaluated = {}

ResolverMaps(s) ==
    <<s.datasource_definitions, s.datasource_factories,
      s.instantiable_datasources, s.resolved_instantiable_datasources,
      s.resolved_strategies>>

\* C20: verifying or running checks never writes to the resolver maps of
\* the application (definitions, factories, descriptors, resolved
\* strategies): after construction and registration they are only read.
C20_MapsOnlyRead ==
    [][ResolvingStep => ResolverMaps(app') = ResolverMaps(app)]_vars

\* ------------------------------------------- statistics() and errored()
\* The positions of the futures the executor holds in the given container.
Held(st, container) ==
    UNION { { <<key, i>> : i \in DOMAIN st[key][container] } :
              key \in DOMAIN st }

\* Future.exception() of a finished future: None if the job returned.
exception(futs, h) == futs[h].outcome.exc

\* A statistics() that reports every held future as running.
statistics_all_running(st, futs) ==
    LET total == Cardinality(Held(st, "active_futures"))
        finished == Held(st, "finished_futures")
        failed == Cardinality({ p \in finished :
            exception(futs, st[p[1]].finished_futures[p[2]]) # None })
        returned == Cardinality(finished) - failed
    IN  [total |-> total, completed |-> returned, errored |-> failed,
         running |-> total, awaiting_pickup |-> returned + failed]

\* CheckExecutor.statistics
statistics(st, futs) ==
    LET total == Cardinality(Held(st, "active_futures"))
        finished == Held(st, "finished_futures")
        failed == Cardinality({ p \in finished :
            exception(futs, st[p[1]].finished_futures[p[2]]) # None })
        returned == Cardinality(finished) - failed
        awaiting_pickup == returned + failed
    IN  [total |-> total, completed |-> returned, errored |-> failed,
         running |-> total - awaiting_pickup,
         awaiting_pickup |-> awaiting_pickup]

\* str(key) of a key (check.name, environment.name)
str(key) == <<"(", key[1], ", ", key[2], ")">>

\* The exception of the last failed future of a non-empty list of them.
RECURSIVE LastException(_, _, _)
LastException(futs, finished, found) ==
    IF finished = <<>> THEN found
    ELSE LastException(futs, Tail(finished),
                       IF exception(futs, Head(finished)) # None
                       THEN exception(futs, Head(finished))
                       ELSE found)

\* An errored() that keeps reporting what the state no longer holds: it
\* reads the futures, not the finished_futures of the keys.
errored_of_all_futures(st, futs) ==
    LET failed == { k \in Keys : \E h \in DOMAIN futs :
                      /\ futs[h].key = k /\ futs[h].done
                      /\ exception(futs, h) # None }
    IN  [s \in { str(k) : k \in failed } |->
           LET key == CHOOSE k \in failed : str(k) = s
               future == CHOOSE h \in DOMAIN futs :
                           /\ futs[h].key = key /\ futs[h].done
                           /\ exception(futs, h) # None
           IN  exception(futs, future)]

\* CheckExecutor.errored: a dict, so that a later failed future of a key
\* overwrites the entry of an earlier one. str(exception) is the kind of
\* the exception.
errored(st, futs) ==
    LET failed == { k \in DOMAIN st :
                      LastException(futs, st[k].finished_futures, None)
                      # None }
    IN  [s \in { str(k) : k \in failed } |->
           LET key == CHOOSE k \in failed : str(k) = s
           IN  LastException(futs, st[key].finished_futures, None)]

\* The handles result() has returned.
PickedUp == UNION { Range(picked[k]) : k \in Keys }

\* The handles submitted and not picked up.
Pending == DOMAIN futures \ PickedUp

C23_WitnessDrained ==
    /\ PickedUp # {}
    /\ Pending = {}
    /\ statistics(state, futures).total = 0

\* The failed handles that finished and were not picked up.
FailedPending ==
    { h \in Pending : futures[h].done /\ exception(futures, h) # None }

\* C24 as stated: errored() holds the entry str(key) -> str(exception) of
\* every finished handle that failed and was not picked up, and no entry
\* of a failed handle that result(key) has returned.
C24_ErroredEveryHandle ==
    LET e == errored(state, futures)
    IN  /\ \A h \in FailedPending :
              /\ str(futures[h].key) \in DOMAIN e
              /\ e[str(futures[h].key)] = exception(futures, h)
        /\ \A s \in DOMAIN e : \E h \in FailedPending :
              s = str(futures[h].key) /\ e[s] = exception(futures, h)

\* C24: errored() holds one entry per key with a finished handle that
\* failed and was not picked up: str(key) -> str(exception) of the one of
\* them that finished last; it holds no entry for a key whose failed
\* handles were all picked up.
C24_ErroredLastPerKey ==
    LET e == errored(state, futures)
    IN  /\ DOMAIN e = { str(futures[h].key) : h \in FailedPending }
        /\ \A h \in FailedPending :
              (\A g \in FailedPending :
                  futures[g].key = futures[h].key
                  => \E i, j \in DOMAIN completed[futures[h].key] :
                        /\ completed[futures[h].key][i] = g
                        /\ completed[futures[h].key][j] = h
                        /\ i <= j)
              => e[str(futures[h].key)] = exception(futures, h)

\* A failed handle was picked up and its key has no entry any more, while
\* another key still has one.
C24_Witness ==
    /\ \E h \in PickedUp :
          /\ exception(futures, h) # None
          /\ str(futures[h].key) \notin DOMAIN errored(state, futures)
    /\ errored(state, futures) # EmptyMap

\* ----------------------------------------------------------- SpecStorage
\* Last instant of the clock of the storages; the instants are half
\* seconds.
MaxClock == 3

\* Instants per second: timedelta.total_seconds() of a ttl is ttl / 2.
TicksPerSecond == 2

\* The ttl of the entries stored: none, 0.5 s, 1 s.
StorageTtls == {NoDuration, 1, 2}

\* The one cache key the backends are asked for.
StorageKey == "test-key"

\* A backend: InMemoryStorage.cache, or the keys of the Redis server with
\* the instants at which the server drops them.
Backend(kind, use_redis_ttl) ==
    [kind |-> kind, use_redis_ttl |-> use_redis_ttl,
     cache |-> EmptyMap, expires |-> EmptyMap]

\* The chains of three backends of this specification.
Chains ==
    LET memory == Backend("InMemoryStorage", FALSE)
        redis == Backend("RedisStorage", FALSE)
        redis_ttl == Backend("RedisStorage", TRUE)
    IN  { <<memory, memory, memory>>,
          <<memory, redis_ttl, memory>>,
          <<redis_ttl, memory, redis>>,
          <<redis, redis_ttl, memory>> }

\* Redis DEL
redis_delete(b, key) ==
    [b EXCEPT !.cache = DelKey(@, key),
              !.expires = [k \in (DOMAIN @) \ {key} |-> @[k]]]

\* InMemoryStorage.store and RedisStorage.store (SETEX, DEL or SET)
backend_store(b, entry, t) ==
    IF b.kind = "RedisStorage"
    THEN IF b.use_redis_ttl /\ entry.ttl # NoDuration
         THEN LET expiry_seconds == entry.ttl \div TicksPerSecond IN
              IF expiry_seconds > 0
              THEN [b EXCEPT
                      !.cache = storage_store(@, StorageKey, entry),
                      !.expires = (StorageKey :>
                                     t + expiry_seconds * TicksPerSecond)
                                  @@ @]
              ELSE redis_delete(b, StorageKey)
         ELSE [redis_delete(b, StorageKey) EXCEPT
                 !.cache = storage_store(@, StorageKey, entry)]
    ELSE [b EXCEPT !.cache = storage_store(@, StorageKey, entry)]

\* InMemoryStorage.get and RedisStorage.get
backend_get(b, return_expired, t) ==
    LET r == storage_get(b.cache, StorageKey, return_expired, t)
    IN  [backend |-> IF r.cache = b.cache THEN b
                     ELSE redis_delete(b, StorageKey),
         entry |-> r.entry]

\* The Redis server drops the keys whose time has come.
server_expiry(b, t) ==
    IF StorageKey \in DOMAIN b.expires /\ b.expires[StorageKey] <= t
    THEN redis_delete(b, StorageKey)
    ELSE b

\* A propagation that reaches the first storage of the chain only.
propagate_to_first_storage(ss, cache_entry, found_in, t) ==
    [i \in DOMAIN ss |->
       IF i < found_in /\ i = 1
       THEN backend_store(ss[i], cache_entry, t) ELSE ss[i]]

\* ChainedStorage._propagate_to_earlier_storages
propagate_to_earlier_storages(ss, cache_entry, found_in, t) ==
    [i \in DOMAIN ss |->
       IF i < found_in THEN backend_store(ss[i], cache_entry, t) ELSE ss[i]]

\* ChainedStorage.get, from the storage at index i on
RECURSIVE chained_get(_, _, _, _)
chained_get(ss, i, return_expired, t) ==
    IF i > Len(ss) THEN [storages |-> ss, entry |-> NoEntry, found_in |-> 0]
    ELSE With(backend_get(ss[i], return_expired, t),
              LAMBDA r :
                With([ss EXCEPT ![i] = r.backend],
                     LAMBDA s1 :
                       IF r.entry.exists
                       THEN [storages |->
                               propagate_to_earlier_storages(
                                   s1, r.entry, i, t),
                             entry |-> r.entry, found_in |-> i]
                       ELSE chained_get(s1, i + 1, return_expired, t)))

\* ChainedStorage.store
chained_store(ss, entry, t) ==
    [i \in DOMAIN ss |-> backend_store(ss[i], entry, t)]

\* target: the index of the backend asked, 0 for the chain, -1 for none.
NoGet ==
    [target |-> -1, return_expired |-> FALSE, entry |-> NoEntry,
     found_in |-> 0]

\* Three chained backends, empty at instant 0.
InitStorage ==
    /\ storages \in Chains
    /\ lastGet = NoGet
    /\ now = 0
    /\ checks = EmptyMap
    /\ cache = EmptyMap
    /\ run = EmptyMap
    /\ refresh = EmptyMap
    /\ InitExecutor
    /\ ThreadsUnused
    /\ StreamUnused
    /\ VerifyUnused
    /\ CaptureUnused
    /\ ContextUnused
    /\ HostnameUnused
    /\ MoreUnused

StorageRest ==
    UNCHANGED <<evars, tvars, checks, cache, run, refresh, stream, app,
                capture, context, hostname, wvars>>

\* storage.get(key, return_expired) on the backend at index i
BackendGet(i, return_expired) ==
    \E r \in {backend_get(storages[i], return_expired, now)} :
        /\ storages' = [storages EXCEPT ![i] = r.backend]
        /\ lastGet' = [target |-> i, return_expired |-> return_expired,
                       entry |-> r.entry,
                       found_in |-> IF r.entry.exists THEN i ELSE 0]
        /\ UNCHANGED now
        /\ StorageRest

\* storage.store(entry) on the backend at index i, as the tests seed it
BackendStore(i, ttl) ==
    /\ storages' = [storages EXCEPT ![i] =
          backend_store(@, CacheEntry("test-value", now, ttl), now)]
    /\ lastGet' = NoGet
    /\ UNCHANGED now
    /\ StorageRest

\* ChainedStorage.get
ChainedGet(return_expired) ==
    \E r \in {chained_get(storages, 1, return_expired, now)} :
        /\ storages' = r.storages
        /\ lastGet' = [target |-> 0, return_expired |-> return_expired,
                       entry |-> r.entry, found_in |-> r.found_in]
        /\ UNCHANGED now
        /\ StorageRest

\* ChainedStorage.store
ChainedStore(ttl) ==
    /\ storages' = chained_store(storages,
                                 CacheEntry("test-value", now, ttl), now)
    /\ lastGet' = NoGet
    /\ UNCHANGED now
    /\ StorageRest

\* Time passes, on the Redis servers as well.
StorageTick ==
    /\ now < MaxClock
    /\ now' = now + 1
    /\ storages' = [i \in DOMAIN storages |->
                      server_expiry(storages[i], now + 1)]
    /\ lastGet' = NoGet
    /\ StorageRest

NextStorage ==
    \/ \E i \in 1..3, return_expired \in BOOLEAN :
          BackendGet(i, return_expired)
    \/ \E i \in 1..3, ttl \in StorageTtls : BackendStore(i, ttl)
    \/ \E return_expired \in BOOLEAN : ChainedGet(return_expired)
    \/ \E ttl \in StorageTtls : ChainedStore(ttl)
    \/ StorageTick

SpecStorage == InitStorage /\ [][NextStorage]_vars

\* The entry backend i holds for the key (NoEntry: none).
HeldEntry(ss, i) ==
    IF StorageKey \in DOMAIN ss[i].cache THEN ss[i].cache[StorageKey]
    ELSE NoEntry

Expired(entry) ==
    entry.exists /\ entry.ttl # NoDuration /\ now - entry.added_at > entry.ttl

C21_Step ==
    \A i \in DOMAIN storages :
        lastGet'.target = i =>
            LET held == HeldEntry(storages, i) IN
            /\ \A j \in DOMAIN storages : j # i => storages'[j] = storages[j]
            /\ Expired(held) =>
                 /\ ~HeldEntry(storages', i).exists
                 /\ lastGet'.entry =
                      IF lastGet'.return_expired THEN held ELSE NoEntry
            /\ ~Expired(held) =>
                 /\ lastGet'.entry = held
                 /\ storages'[i] = storages[i]

Refuses(backend, entry) ==
    /\ backend.kind = "RedisStorage"
    /\ backend.use_redis_ttl
    /\ entry.ttl # NoDuration
    /\ entry.ttl < TicksPerSecond

----------------------------------------------------------------------------
\* Watchpost.app_context and the context variable _cv (SpecContext).
\*
\* _cv is a ContextVar: every task (a thread of the executor, an ASGI
\* request) has a value of its own, unset at first.  A task's `with`
\* blocks nest, so the open blocks of a task are a stack of suspended
\* app_context generators.

MaxDepth == 3

Tasks == {"t1", "t2"}

Apps == {"app1", "app2"}

Unset == "unset"

NoToken == [set |-> FALSE, old_value |-> Unset]

\* how the body of a `with` block ends; KeyError is a LookupError
BlockExits == {"return", "ValueError", "KeyError"}

IsLookupError(exc) == exc = "KeyError"

\* _cv.set(value): the new value and the token that remembers the old one
cv_set(cv, value) ==
    [cv |-> value, token |-> [set |-> TRUE, old_value |-> cv]]

\* _cv.reset(token)
cv_reset(token) == token.old_value

\* what a task starts with: no value, no open block, nothing raised
NoContext == [cv |-> Unset, blocks |-> <<>>, raised |-> None]

\* Entering sets the variable whether or not it already has a value.
app_context_enter_always(c, self) ==
    LET r == cv_set(c.cv, self)
    IN  [cv |-> r.cv,
         blocks |-> Append(c.blocks, [self |-> self, token |-> r.token]),
         raised |-> None]

\* `with self.app_context():` up to the yield.  _cv.get() raises
\* LookupError exactly when the variable has no value for the caller.
app_context_enter(c, self) ==
    IF c.cv # Unset
    THEN [cv |-> c.cv,
          blocks |-> Append(c.blocks, [self |-> self, token |-> NoToken]),
          raised |-> None]
    ELSE LET r == cv_set(c.cv, self)
         IN  [cv |-> r.cv,
              blocks |-> Append(c.blocks,
                                [self |-> self, token |-> r.token]),
              raised |-> None]

\* The innermost block of the task ends with exc.  A generator suspended
\* at the second yield runs `finally: _cv.reset(_token)`.  A generator
\* suspended at the first yield is inside `try ... except LookupError`:
\* a LookupError of the body is caught there, the generator sets the
\* variable and yields a second time, contextlib raises RuntimeError
\* ("generator didn't stop after throw()") and closes the generator, whose
\* finally clause resets the variable.
app_context_exit(c, exc) ==
    LET block == c.blocks[Len(c.blocks)]
        rest == SubSeq(c.blocks, 1, Len(c.blocks) - 1)
        out == IF exc = "return" THEN None ELSE exc
    IN  IF block.token.set
        THEN [cv |-> cv_reset(block.token), blocks |-> rest,
              raised |-> out]
        ELSE IF IsLookupError(exc)
             THEN LET r == cv_set(c.cv, block.self)
                  IN  [cv |-> cv_reset(r.token), blocks |-> rest,
                       raised |-> "RuntimeError"]
             ELSE [cv |-> c.cv, blocks |-> rest, raised |-> out]

InitContext ==
    /\ context = [t \in Tasks |-> NoContext]
    /\ now = 0
    /\ checks = EmptyMap
    /\ cache = EmptyMap
    /\ run = EmptyMap
    /\ refresh = EmptyMap
    /\ InitExecutor
    /\ ThreadsUnused
    /\ StreamUnused
    /\ VerifyUnused
    /\ CaptureUnused
    /\ StorageUnused
    /\ HostnameUnused
    /\ MoreUnused

ContextRest ==
    UNCHANGED <<evars, tvars, avars, stream, app, capture, storages,
                lastGet, hostname, wvars>>

\* task t enters `with self.app_context():`
EnterAppContext(t, self) ==
    /\ Len(context[t].blocks) < MaxDepth
    /\ context' = [context EXCEPT ![t] = app_context_enter(@, self)]
    /\ ContextRest

\* the innermost block of task t ends
ExitAppContext(t, exc) ==
    /\ context[t].blocks # <<>>
    /\ context' = [context EXCEPT ![t] = app_context_exit(@, exc)]
    /\ ContextRest

NextContext ==
    \/ \E t \in Tasks, self \in Apps : EnterAppContext(t, self)
    \/ \E t \in Tasks, exc \in BlockExits : ExitAppContext(t, exc)

SpecContext == InitContext /\ [][NextContext]_vars

\* The current app of a task is the application of its outermost open
\* block, and there is none when no block is open.
CurrentApp(c) ==
    IF c.blocks = <<>> THEN c.cv = Unset ELSE c.cv = c.blocks[1].self

\* C25: while a task has a block open the current app is the application
\* of its outermost block, and after the outermost block has exited, by a
\* return or by an exception, the task has no current app; entering a
\* block while a current app is set, and leaving that inner block, leave
\* the current app as it was.
C25_Step ==
    \A t \in Tasks :
        LET c == context[t]
            d == context'[t]
        IN  /\ CurrentApp(d)
            /\ (c.blocks # <<>> /\ d.blocks # <<>>) => d.cv = c.cv
            /\ (c.blocks = <<>> /\ d.blocks # <<>>)
                   => d.cv = d.blocks[1].self
            /\ d.blocks = <<>> => d.cv = Unset

C25_AppContext == [][C25_Step]_vars

\* One task has left its outermost block by an exception and has no
\* current app; the other is back in its outer block after an inner block
\* of another application has ended, and still has the outer application.
C25_Witness ==
    /\ context["t1"].blocks = <<>>
    /\ context["t1"].raised = "ValueError"
    /\ context["t1"].cv = Unset
    /\ Len(context["t2"].blocks) = 1
    /\ context["t2"].raised = "RuntimeError"
    /\ context["t2"].cv = context["t2"].blocks[1].self


----------------------------------------------------------------------------
\* The order of the run_checks stream (SpecStream).

\* The end of a line in the agent output.
NL == "\n"

\* Watchpost.version, a constructor argument; "unknown" is its default.
Versions == {"unknown", "1.2.3"}

\* _generate_checkmk_agent_output: the five chunks it yields, each a
\* sequence of pieces of text.
generate_checkmk_agent_output(version) ==
    << <<"<<<check_mk>>>", NL>>,
       <<"Version: watchpost-">>,
       <<version>>,
       <<NL>>,
       <<"AgentOS: watchpost", NL>> >>

RECURSIVE Concat(_)
Concat(chunks) ==
    IF chunks = <<>> THEN <<>> ELSE Head(chunks) \o Concat(Tail(chunks))

\* The lines of the concatenated chunks: a line ends at each NL.
RECURSIVE Lines(_, _)
Lines(text, line) ==
    IF text = <<>> THEN (IF line = <<>> THEN <<>> ELSE <<line>>)
    ELSE IF Head(text) = NL THEN <<line>> \o Lines(Tail(text), <<>>)
    ELSE Lines(Tail(text), Append(line, Head(text)))

IndexOf(seq, x) == CHOOSE i \in DOMAIN seq : seq[i] = x

\* key1 does not come after key2 in check-then-environment order: the
\* position of the check in Watchpost.checks first, then the position of
\* the environment in the check's environments.
NotAfter(key1, key2) ==
    LET c1 == IndexOf(StreamChecks, key1[1])
        c2 == IndexOf(StreamChecks, key2[1])
    IN  \/ c1 < c2
        \/ /\ c1 = c2
           /\ IndexOf(checks[key1[1]].environments, key1[2])
                  <= IndexOf(checks[key1[1]].environments, key2[2])

\* What the stream holds between the header and the synthetic result.
ResultBlocks ==
    LET y == stream.yielded
    IN  IF stream.pc = "done" THEN 2..(Len(y) - 1) ELSE 2..Len(y)

\* C26: the stream of run_checks starts with the agent header, which is
\* three lines; the results follow check by check in the order of
\* Watchpost.checks and, for one check, in the order of its environments;
\* the "Run checks" result comes last, once, when the stream is finished.
\* The order is that of the check list alone.
C26_StreamOrder ==
    stream.pc \in {"running", "done"} =>
        LET y == stream.yielded
        IN  /\ Len(y) >= 1
            /\ y[1] = AgentHeader[1]
            /\ \A v \in Versions :
                   Lines(Concat(generate_checkmk_agent_output(v)), <<>>)
                       = << <<"<<<check_mk>>>">>,
                            <<"Version: watchpost-", v>>,
                            <<"AgentOS: watchpost">> >>
            /\ \A i \in ResultBlocks :
                   /\ y[i].key[1] \in Range(StreamChecks)
                   /\ y[i].key[2] \in Range(checks[y[i].key[1]].environments)
            /\ \A i \in ResultBlocks, j \in ResultBlocks :
                   i < j => NotAfter(y[i].key, y[j].key)
            /\ stream.pc = "done"
                   => /\ Len(y) >= 2
                      /\ y[Len(y)] = RunChecksResult(checks)[1]

\* A finished stream with results of both checks and of both environments
\* of the second check, which declares e2 before e1.
C26_Witness ==
    /\ stream.pc = "done"
    /\ \E i, j, k \in ResultBlocks :
           /\ i < j /\ j < k
           /\ stream.yielded[i].key = <<"svc", "e1">>
           /\ stream.yielded[j].key = <<"aux", "e2">>
           /\ stream.yielded[k].key = <<"aux", "e1">>


----------------------------------------------------------------------------
\* Hostname resolution (SpecHostname).
\*
\* A string is a sequence of characters.  The characters of this
\* specification: lower-case and upper-case ASCII letters, a digit, the
\* hyphen, the dot, an ASCII character that no hostname may hold, and a
\* letter outside ASCII.

MaxLen == 4

Characters == {"a", "B", "1", "-", ".", "_", "é"}

RECURSIVE StringsOfLength(_)
StringsOfLength(n) ==
    IF n = 0 THEN {<<>>}
    ELSE {Append(s, ch) : s \in StringsOfLength(n - 1), ch \in Characters}

Strings == UNION {StringsOfLength(n) : n \in 0..MaxLen}

\* 97 <= ord(ch) <= 122
IsAsciiLower(ch) == ch \in {"a", "b", "c", "e", "p", "r", "s", "w"}

\* 65 <= ord(ch) <= 90
IsAsciiUpper(ch) == ch \in {"B"}

\* 48 <= ord(ch) <= 57
IsAsciiDigit(ch) == ch \in {"1"}

\* str.isalnum of one character
isalnum(ch) == IsAsciiLower(ch) \/ IsAsciiUpper(ch) \/ IsAsciiDigit(ch)
               \/ ch = "é"

\* unicodedata.normalize("NFKD", ch).encode("ascii", "ignore"): é is
\* decomposed into e and a combining accent, which is dropped.
ascii(ch) == IF ch = "é" THEN "e" ELSE ch

\* str.lower of one ASCII character
lower(ch) == IF ch = "B" THEN "b" ELSE ch

LABEL_MAX == 63

HOSTNAME_MAX == 253

\* Limits small enough for the strings of this specification to exceed.
ShortLabelMax == 2

ShortHostnameMax == 3

Limits ==
    {[label_max |-> LABEL_MAX, hostname_max |-> HOSTNAME_MAX],
     [label_max |-> ShortLabelMax, hostname_max |-> ShortHostnameMax]}

\* str.split(sep)
RECURSIVE split_from(_, _, _, _)
split_from(s, sep, part, parts) ==
    IF s = <<>> THEN Append(parts, part)
    ELSE IF Head(s) = sep
         THEN split_from(Tail(s), sep, <<>>, Append(parts, part))
         ELSE split_from(Tail(s), sep, Append(part, Head(s)), parts)

split(s, sep) == split_from(s, sep, <<>>, <<>>)

\* sep.join(parts)
RECURSIVE join(_, _)
join(sep, parts) ==
    IF parts = <<>> THEN <<>>
    ELSE IF Len(parts) = 1 THEN Head(parts)
    ELSE Head(parts) \o <<sep>> \o join(sep, Tail(parts))

\* is_rfc1123_hostname, with LABEL_MAX and HOSTNAME_MAX as given by limits
is_rfc1123_hostname(value, limits) ==
    /\ value # <<>>
    /\ Len(value) <= limits.hostname_max
    /\ \A i \in DOMAIN value :
           \/ IsAsciiLower(value[i])
           \/ IsAsciiDigit(value[i])
           \/ value[i] \in {".", "-"}
           \/ IsAsciiUpper(value[i])
    /\ LET parts == split(value, ".")
       IN  \A p \in DOMAIN parts :
               LET label == parts[p]
               IN  /\ 1 <= Len(label)
                   /\ Len(label) <= limits.label_max
                   /\ isalnum(label[1])
                   /\ isalnum(label[Len(label)])
                   /\ \A i \in DOMAIN label :
                          isalnum(label[i]) \/ label[i] = "-"

\* _invalid_char_re.sub("-", s): every run of characters other than
\* a-z, 0-9, dot and hyphen becomes one hyphen
RECURSIVE invalid_char_sub(_, _, _)
invalid_char_sub(s, out, in_run) ==
    IF s = <<>> THEN out
    ELSE IF IsAsciiLower(Head(s)) \/ IsAsciiDigit(Head(s))
            \/ Head(s) \in {".", "-"}
         THEN invalid_char_sub(Tail(s), Append(out, Head(s)), FALSE)
         ELSE invalid_char_sub(Tail(s),
                               IF in_run THEN out ELSE Append(out, "-"),
                               TRUE)

\* _multi_dot_re.sub(".", s) and _multi_dash_re.sub("-", s): every run of
\* ch becomes one ch
RECURSIVE multi_sub(_, _, _)
multi_sub(s, ch, out) ==
    IF s = <<>> THEN out
    ELSE IF Head(s) = ch /\ out # <<>> /\ out[Len(out)] = ch
         THEN multi_sub(Tail(s), ch, out)
         ELSE multi_sub(Tail(s), ch, Append(out, Head(s)))

\* str.strip(ch)
RECURSIVE strip(_, _)
strip(s, ch) ==
    IF s = <<>> THEN s
    ELSE IF Head(s) = ch THEN strip(Tail(s), ch)
    ELSE IF s[Len(s)] = ch THEN strip(SubSeq(s, 1, Len(s) - 1), ch)
    ELSE s

\* The loop that cleans the labels: strip hyphens, drop empty labels,
\* truncate to LABEL_MAX.
RECURSIVE clean_labels(_, _, _)
clean_labels(raws, limits, labels) ==
    IF raws = <<>> THEN labels
    ELSE IF strip(Head(raws), "-") = <<>>
         THEN clean_labels(Tail(raws), limits, labels)
         ELSE clean_labels(
                  Tail(raws), limits,
                  Append(labels,
                         IF Len(strip(Head(raws), "-")) > limits.label_max
                         THEN SubSeq(strip(Head(raws), "-"), 1,
                                     limits.label_max)
                         ELSE strip(Head(raws), "-")))

\* The loop that truncates the whole at a label boundary.
RECURSIVE truncate_labels(_, _, _, _)
truncate_labels(labels, limits, out, total) ==
    IF labels = <<>> THEN out
    ELSE IF total + Len(Head(labels)) + (IF out # <<>> THEN 1 ELSE 0)
                > limits.hostname_max
         THEN out
         ELSE truncate_labels(
                  Tail(labels), limits, Append(out, Head(labels)),
                  total + Len(Head(labels)) + (IF out # <<>> THEN 1 ELSE 0))

\* What a call gives: a string, None, or an exception.
Returns(value) == [raised |-> None, none |-> FALSE, value |-> value]

ReturnsNone == [raised |-> None, none |-> TRUE, value |-> <<>>]

Raises(exc) == [raised |-> exc, none |-> FALSE, value |-> <<>>]

\* The normalisation of coerce_to_rfc1123 up to the split into labels.
normalize(value) ==
    multi_sub(
        multi_sub(
            invalid_char_sub([i \in DOMAIN value |-> lower(ascii(value[i]))],
                             <<>>, FALSE),
            ".", <<>>),
        "-", <<>>)

\* coerce_to_rfc1123, with LABEL_MAX and HOSTNAME_MAX as given by limits
coerce_to_rfc1123(value, limits) ==
    IF value = <<>> THEN Raises("ValueError")
    ELSE With(truncate_labels(
                  clean_labels(split(normalize(value), "."), limits, <<>>),
                  limits, <<>>, 0),
              LAMBDA out : IF out = <<>> THEN Raises("ValueError")
                           ELSE Returns(join(".", out)))


\* ------------------------------------------------------ the strategies
\* HostnameContext: the fields that the templates of this specification
\* use.  check is a dataclass and the others are plain values.
HostnameContext ==
    [service_name |-> <<"s">>, environment_name |-> <<"p">>]

ContextFields ==
    {"check", "environment", "service_name", "service_labels", "result"}

\* The pieces of a format string: literal text, or a replacement field
\* with the name of a keyword argument and an optional attribute.
Text(text) == [field |-> None, attribute |-> None, text |-> text]

Field(name, attribute) ==
    [field |-> name, attribute |-> attribute, text |-> <<>>]

\* Whether str.format(**asdict(ctx)) finds the field.
Formats(piece) ==
    \/ piece.field = None
    \/ piece.field = "service_name" /\ piece.attribute = None
    \/ piece.field = "environment" /\ piece.attribute = "name"

Formatted(piece, ctx) ==
    IF piece.field = None THEN piece.text
    ELSE IF piece.field = "service_name" THEN ctx.service_name
    ELSE ctx.environment_name

\* template.format(**asdict(ctx)): KeyError for a field that is no key of
\* the context, AttributeError for an attribute the value does not have
RECURSIVE format(_, _, _)
format(template, ctx, out) ==
    IF template = <<>> THEN Returns(out)
    ELSE IF Head(template).field # None
            /\ Head(template).field \notin ContextFields
         THEN Raises("KeyError")
    ELSE IF ~Formats(Head(template)) THEN Raises("AttributeError")
    ELSE format(Tail(template), ctx, out \o Formatted(Head(template), ctx))

NoStrategy == [kind |-> None, hostname |-> <<>>, fn |-> ReturnsNone,
               template |-> <<>>]

StaticHostnameStrategy(literal) ==
    [kind |-> "Static", hostname |-> literal, fn |-> ReturnsNone,
     template |-> <<>>]

\* fn: what the function gives for the context of this specification
FunctionStrategy(fn) ==
    [kind |-> "Function", hostname |-> <<>>, fn |-> fn, template |-> <<>>]

TemplateStrategy(template) ==
    [kind |-> "Template", hostname |-> <<>>, fn |-> ReturnsNone,
     template |-> template]

\* HostnameStrategy.resolve of the three kinds of strategy
resolve(strategy, ctx) ==
    CASE strategy.kind = "Static" -> Returns(strategy.hostname)
      [] strategy.kind = "Function" -> strategy.fn
      [] strategy.kind = "Template" -> format(strategy.template, ctx, <<>>)

\* The hostname inputs of this specification: a template string, a
\* callable, a strategy object.
Templates ==
    {<<>>,
     <<Text(<<"a">>)>>,
     <<Field("service_name", None), Text(<<"-">>),
       Field("environment", "name")>>,
     <<Field("nonexistent", None)>>,
     <<Text(<<"a">>), Field("nonexistent", None)>>,
     <<Field("environment", "nonexistent")>>}

\* to_strategy for the inputs above: a string becomes a TemplateStrategy,
\* a callable a FunctionStrategy, a strategy is used as it is.
to_strategy(value) == value

\* The truth value of a hostname input: an empty string is false.
Truthy(value) ==
    /\ value.kind # None
    /\ ~(value.kind = "Template" /\ value.template = <<>>)

\* ------------------------------------------------------ resolve_hostname
\* One of the levels 2 to 4: the candidate of the strategy, if it gives a
\* non-empty string; an exception of the strategy is wrapped.
level_candidate(strategy, ctx) ==
    IF strategy.kind = None THEN ReturnsNone
    ELSE With(resolve(strategy, ctx),
              LAMBDA val :
                  IF val.raised # None
                  THEN Raises("HostnameResolutionError")
                  ELSE IF ~val.none /\ val.value # <<>> THEN val
                  ELSE ReturnsNone)

\* The candidate in precedence order, before the default and the
\* validation.
candidate_of(watchpost, check, environment, result_hostname, ctx) ==
    IF Truthy(result_hostname)
    THEN resolve(to_strategy(result_hostname), ctx)
    ELSE With(level_candidate(check, ctx),
              LAMBDA c :
                  IF c # ReturnsNone THEN c
                  ELSE With(level_candidate(environment, ctx),
                            LAMBDA e :
                                IF e # ReturnsNone THEN e
                                ELSE level_candidate(watchpost, ctx)))

\* The default, the validation and the coercion of a candidate.
validated(candidate, ctx, fallback, coerce, limits) ==
    IF candidate.raised # None THEN candidate
    ELSE With(IF candidate.none /\ fallback
              THEN Returns(ctx.service_name \o <<"-">>
                           \o ctx.environment_name)
              ELSE candidate,
              LAMBDA c :
                  IF c.none THEN Raises("HostnameResolutionError")
                  ELSE IF is_rfc1123_hostname(c.value, limits) THEN c
                  ELSE IF ~coerce THEN Raises("HostnameResolutionError")
                  ELSE IF coerce_to_rfc1123(c.value, limits).raised # None
                       THEN Raises("HostnameResolutionError")
                       ELSE coerce_to_rfc1123(c.value, limits))

resolve_hostname(watchpost, check, environment, result_hostname, ctx, fallback, coerce, limits) ==
    validated(candidate_of(watchpost, check, environment, result_hostname,
                           ctx),
              ctx, fallback, coerce, limits)


\* ------------------------------------------------------ SpecHostname
\* result.hostname of the CheckResult, None when there is no result or no
\* override; the empty string is a template like any other string.
ResultHostnames ==
    {NoStrategy,
     TemplateStrategy(<<>>),
     TemplateStrategy(<<Text(<<"r">>)>>),
     TemplateStrategy(<<Field("nonexistent", None)>>),
     FunctionStrategy(ReturnsNone),
     FunctionStrategy(Returns(<<>>))}

\* Check.hostname_strategy
CheckStrategies ==
    {NoStrategy,
     StaticHostnameStrategy(<<"c">>),
     FunctionStrategy(ReturnsNone),
     FunctionStrategy(Returns(<<>>)),
     FunctionStrategy(Raises("Exception"))}

\* Environment.hostname_strategy
EnvironmentStrategies ==
    {NoStrategy,
     TemplateStrategy(<<Text(<<"e", "-">>), Field("environment", "name")>>),
     TemplateStrategy(<<Field("nonexistent", None)>>),
     FunctionStrategy(ReturnsNone)}

\* Watchpost.hostname_strategy; two of them give strings that are no
\* hostnames, one of which cannot be coerced.
WatchpostStrategies ==
    {NoStrategy,
     StaticHostnameStrategy(<<"w">>),
     StaticHostnameStrategy(<<"B", "_">>),
     StaticHostnameStrategy(<<"_">>),
     FunctionStrategy(ReturnsNone)}

NoLevels ==
    [result_hostname |-> NoStrategy, check |-> NoStrategy,
     environment |-> NoStrategy, watchpost |-> NoStrategy]

NoHostnameCall(limits) ==
    [op |-> "idle", limits |-> limits, value |-> <<>>, template |-> <<>>,
     levels |-> NoLevels, fallback |-> FALSE, coerce |-> FALSE,
     valid |-> FALSE, outcome |-> ReturnsNone]

InitHostname ==
    /\ hostname \in {NoHostnameCall(limits) : limits \in Limits}
    /\ now = 0
    /\ checks = EmptyMap
    /\ cache = EmptyMap
    /\ run = EmptyMap
    /\ refresh = EmptyMap
    /\ InitExecutor
    /\ ThreadsUnused
    /\ StreamUnused
    /\ VerifyUnused
    /\ CaptureUnused
    /\ StorageUnused
    /\ ContextUnused
    /\ MoreUnused

HostnameRest ==
    UNCHANGED <<evars, tvars, avars, stream, app, capture, storages,
                lastGet, context, wvars>>

\* is_rfc1123_hostname(value) and coerce_to_rfc1123(value)
CoerceToRfc1123(value) ==
    /\ hostname.op = "idle"
    /\ hostname' = [hostname EXCEPT
                      !.op = "coerce_to_rfc1123",
                      !.value = value,
                      !.valid = is_rfc1123_hostname(value, hostname.limits),
                      !.outcome = coerce_to_rfc1123(value, hostname.limits)]
    /\ HostnameRest

\* TemplateStrategy(template).resolve(ctx)
TemplateResolve(template) ==
    /\ hostname.op = "idle"
    /\ hostname' = [hostname EXCEPT
                      !.op = "TemplateStrategy.resolve",
                      !.template = template,
                      !.outcome = resolve(TemplateStrategy(template),
                                          HostnameContext)]
    /\ HostnameRest

\* resolve_hostname(watchpost, check, environment, result, ...)
ResolveHostname(levels, fallback, coerce) ==
    /\ hostname.op = "idle"
    /\ hostname' = [hostname EXCEPT
                      !.op = "resolve_hostname",
                      !.levels = levels,
                      !.fallback = fallback,
                      !.coerce = coerce,
                      !.outcome = resolve_hostname(
                                      levels.watchpost, levels.check,
                                      levels.environment,
                                      levels.result_hostname,
                                      HostnameContext, fallback, coerce,
                                      hostname.limits)]
    /\ HostnameRest

\* The caller goes on to its next call.
HostnameReturn ==
    /\ hostname.op # "idle"
    /\ hostname' = NoHostnameCall(hostname.limits)
    /\ HostnameRest

NextHostname ==
    \/ \E value \in Strings : CoerceToRfc1123(value)
    \/ \E template \in Templates : TemplateResolve(template)
    \/ \E r \in ResultHostnames, c \in CheckStrategies,
          e \in EnvironmentStrategies, w \in WatchpostStrategies,
          fallback \in BOOLEAN, coerce \in BOOLEAN :
          ResolveHostname([result_hostname |-> r, check |-> c,
                           environment |-> e, watchpost |-> w],
                          fallback, coerce)
    \/ HostnameReturn

SpecHostname == InitHostname /\ [][NextHostname]_vars

\* What a level yields: nothing without a strategy, else what its
\* strategy resolves to.
Yields(strategy) ==
    IF strategy.kind = None THEN ReturnsNone
    ELSE resolve(strategy, HostnameContext)

NonEmpty(o) == o.raised = None /\ ~o.none /\ o.value # <<>>

\* The candidates of a call, level by level, and the default last.
Candidates(call) ==
    <<Yields(call.levels.result_hostname), Yields(call.levels.check),
      Yields(call.levels.environment), Yields(call.levels.watchpost)>>
    \o (IF call.fallback
        THEN <<Returns(HostnameContext.service_name \o <<"-">>
                       \o HostnameContext.environment_name)>>
        ELSE <<>>)

RECURSIVE FirstNonEmpty(_)
FirstNonEmpty(candidates) ==
    IF candidates = <<>> THEN ReturnsNone
    ELSE IF NonEmpty(Head(candidates)) THEN Head(candidates)
    ELSE FirstNonEmpty(Tail(candidates))

NoneRaises(candidates) ==
    \A i \in DOMAIN candidates : candidates[i].raised = None

\* C27: when no strategy raises and the first non-empty candidate, in the
\* order result override, check, environment, application, default, is a
\* valid hostname, resolve_hostname returns that candidate: a level that
\* yields None or the empty string is passed over for the next one.
C27_FirstNonEmpty ==
    (/\ hostname.op = "resolve_hostname"
     /\ NoneRaises(Candidates(hostname))
     /\ NonEmpty(FirstNonEmpty(Candidates(hostname)))
     /\ is_rfc1123_hostname(FirstNonEmpty(Candidates(hostname)).value,
                            hostname.limits))
        => hostname.outcome = FirstNonEmpty(Candidates(hostname))

\* The same when the result carries no override, or one that yields a
\* non-empty string.
C27_FirstNonEmptyUnlessEmptyOverride ==
    (/\ hostname.op = "resolve_hostname"
     /\ NoneRaises(Candidates(hostname))
     /\ NonEmpty(FirstNonEmpty(Candidates(hostname)))
     /\ is_rfc1123_hostname(FirstNonEmpty(Candidates(hostname)).value,
                            hostname.limits)
     /\ \/ ~Truthy(hostname.levels.result_hostname)
        \/ NonEmpty(Yields(hostname.levels.result_hostname)))
        => hostname.outcome = FirstNonEmpty(Candidates(hostname))

\* C29: coerce_to_rfc1123 returns a valid hostname as it is.
C29_RoundTrip ==
    (hostname.op = "coerce_to_rfc1123" /\ hostname.valid)
        => hostname.outcome = Returns(hostname.value)

\* The same for the valid hostnames without an upper-case letter and
\* without two hyphens in a row.
C29_RoundTripLowerCase ==
    (/\ hostname.op = "coerce_to_rfc1123"
     /\ hostname.valid
     /\ \A i \in DOMAIN hostname.value :
            /\ ~IsAsciiUpper(hostname.value[i])
            /\ i > 1 => ~(hostname.value[i] = "-"
                          /\ hostname.value[i - 1] = "-"))
        => hostname.outcome = Returns(hostname.value)

\* Whether formatting the template against the context fails.
FormatFails(template) ==
    \E i \in DOMAIN template :
        \/ template[i].field # None /\ template[i].field \notin ContextFields
        \/ ~Formats(template[i])

\* C30: TemplateStrategy.resolve returns None, and raises nothing, when
\* the template cannot be formatted against the context.
C30_FormatFailureReturnsNone ==
    (hostname.op = "TemplateStrategy.resolve"
     /\ FormatFails(hostname.template))
        => hostname.outcome = ReturnsNone


----------------------------------------------------------------------------
\* FromFactory markers and the descriptors they resolve to (SpecFactory).

\* Number of markers resolved in one behaviour.
MaxResolutions == 2

\* The registered factory classes; the annotated parameter type is the
\* first of them.
FactoryTypes == {"TestFactory", "OtherFactory"}

AnnotatedType == "TestFactory"

\* Positional arguments of a marker.
ArgumentTuples ==
    {<<>>, <<"service1">>, <<"service2">>, <<"service1", "service1">>,
     <<"service1", "service2">>, <<"service2", "service1">>}

\* Keyword arguments of a marker.
KeywordArguments ==
    {EmptyMap, "region" :> "service1", "region" :> "service2"}

\* FromFactory(factory, *args, **kwargs) with a factory type or None.
FromFactory(factory, args, kwargs) ==
    [factory_type |-> factory, args |-> args, kwargs |-> kwargs]

\* frozenset(args): the elements of the tuple, without order or count
frozenset(args) == {args[i] : i \in DOMAIN args}

\* frozenset(kwargs.items())
items(kwargs) == {<<k, kwargs[k]>> : k \in DOMAIN kwargs}

\* hash of a frozenset: equal sets have equal hashes, and the sets of this
\* specification are taken to have different hashes when they differ.
hash(frozen) == frozen

or(value, default) == IF value = None THEN default ELSE value

\* FromFactory.cache_key(type_key)
cache_key(from_factory, type_key) ==
    <<or(from_factory.factory_type, type_key),
      hash(frozenset(from_factory.args)),
      hash(items(from_factory.kwargs))>>

\* _InstantiableDatasource.from_factory: a new descriptor; id tells the
\* descriptor objects apart.
from_factory(factory_type, args, kwargs, id) ==
    [factory_type |-> factory_type, args |-> args, kwargs |-> kwargs,
     id |-> id]

NoDescriptor == from_factory(None, <<>>, EmptyMap, 0)

Cached(s, key) == {e \in s.instantiable_datasources : e.key = key}

\* _resolve_instantiable_datasource_from_factory(type_key, from_factory):
\* the application afterwards and the descriptor, or ValueError
resolve_from_factory(s, type_key, marker) ==
    LET factory_cache_key == cache_key(marker, type_key)
        factory_type == or(marker.factory_type, type_key)
    IN  IF Cached(s, factory_cache_key) # {}
        THEN [s |-> s, raised |-> None,
              value |-> (CHOOSE e \in Cached(s, factory_cache_key) :
                             TRUE).value]
        ELSE IF factory_type \in s.datasource_factories
        THEN With(from_factory(factory_type, marker.args, marker.kwargs,
                               Cardinality(s.instantiable_datasources) + 1),
                  LAMBDA d :
                      [s |-> [s EXCEPT !.instantiable_datasources =
                                @ \cup {[key |-> factory_cache_key,
                                         value |-> d]}],
                       raised |-> None, value |-> d])
        ELSE [s |-> s, raised |-> "ValueError", value |-> NoDescriptor]

InitFactory ==
    /\ app = [datasource_factories |-> {}, instantiable_datasources |-> {},
              resolutions |-> <<>>]
    /\ now = 0
    /\ checks = EmptyMap
    /\ cache = EmptyMap
    /\ run = EmptyMap
    /\ refresh = EmptyMap
    /\ InitExecutor
    /\ ThreadsUnused
    /\ StreamUnused
    /\ CaptureUnused
    /\ RestUnused

FactoryRest ==
    UNCHANGED <<evars, tvars, avars, stream, capture, zvars>>

\* register_datasource_factory(factory_type)
RegisterFactory(factory_type) ==
    /\ factory_type \notin app.datasource_factories
    /\ app' = [app EXCEPT !.datasource_factories = @ \cup {factory_type}]
    /\ FactoryRest

\* A parameter annotated with the marker is resolved.
ResolveFromFactory(marker) ==
    /\ Len(app.resolutions) < MaxResolutions
    /\ \E r \in {resolve_from_factory(app, AnnotatedType, marker)} :
           app' = [r.s EXCEPT !.resolutions =
                     Append(@, [from_factory |-> marker,
                                raised |-> r.raised, value |-> r.value])]
    /\ FactoryRest

NextFactory ==
    \/ \E factory_type \in FactoryTypes : RegisterFactory(factory_type)
    \/ \E factory \in FactoryTypes \cup {None}, args \in ArgumentTuples,
          kwargs \in KeywordArguments :
          ResolveFromFactory(FromFactory(factory, args, kwargs))

SpecFactory == InitFactory /\ [][NextFactory]_vars

\* Two resolved markers for the same factory.
SameFactory(r1, r2) ==
    /\ r1.raised = None
    /\ r2.raised = None
    /\ or(r1.from_factory.factory_type, AnnotatedType)
           = or(r2.from_factory.factory_type, AnnotatedType)

\* C28: two markers for the same factory resolve to the same descriptor
\* when their positional and keyword arguments are equal, and to different
\* descriptors when their positional or keyword arguments differ.
C28_SameDescriptorIffEqualArguments ==
    \A i \in DOMAIN app.resolutions, j \in DOMAIN app.resolutions :
        (i < j /\ SameFactory(app.resolutions[i], app.resolutions[j]))
            => ((/\ app.resolutions[i].from_factory.args
                        = app.resolutions[j].from_factory.args
                 /\ app.resolutions[i].from_factory.kwargs
                        = app.resolutions[j].from_factory.kwargs)
                <=> app.resolutions[i].value = app.resolutions[j].value)

\* The same with the positional arguments compared as sets.
C28_SameDescriptorIffEqualArgumentSets ==
    \A i \in DOMAIN app.resolutions, j \in DOMAIN app.resolutions :
        (i < j /\ SameFactory(app.resolutions[i], app.resolutions[j]))
            => ((/\ frozenset(app.resolutions[i].from_factory.args)
                        = frozenset(app.resolutions[j].from_factory.args)
                 /\ app.resolutions[i].from_factory.kwargs
                        = app.resolutions[j].from_factory.kwargs)
                <=> app.resolutions[i].value = app.resolutions[j].value)


-----------------------------------------------------------------------------
(***************************************************************************)
(* SpecResult: OngoingCheckResult (result.py).  The builder collects       *)
(* partial results in the order they are added; to_check_result finalizes  *)
(* it with the check state computed by the check_state property.           *)
(***************************************************************************)

\* The most partial results one builder collects.
MaxPartials == 3

\* CheckState (result.py:138-141); __lt__ compares the values.
OK == 0

WARN == 1

CRIT == 2

UNKNOWN == 3

CheckStates == {OK, WARN, CRIT, UNKNOWN}

\* max(iterable) as CPython computes it: the first item, replaced by every
\* later item that compares greater (through the reflected __lt__).
RECURSIVE max_from(_, _, _)
max_from(results, i, best) ==
    IF i > Len(results) THEN best
    ELSE max_from(results, i + 1,
                  IF best < results[i] THEN results[i] ELSE best)

\* The numerically highest state alone, CRIT not preferred.
check_state_numeric(results) ==
    IF results = <<>> THEN OK ELSE max_from(results, 2, results[1])

\* OngoingCheckResult.check_state (result.py:485-500).
check_state(results) ==
    IF results = <<>> THEN OK
    ELSE IF \E i \in 1..Len(results) : results[i] = CRIT THEN CRIT
    ELSE max_from(results, 2, results[1])

NoCheckResult == [none |-> TRUE]

\* OngoingCheckResult.to_check_result (result.py:596-622): the state, which
\* of the two summaries is used, and whether details are produced.
to_check_result(results) ==
    [none        |-> FALSE,
     of          |-> results,
     check_state |-> check_state(results),
     summary     |-> IF check_state(results) = OK
                     THEN "ok_summary" ELSE "fail_summary",
     details     |-> Len(results) > 0]

InitResult ==
    /\ builder = [results |-> <<>>, final |-> NoCheckResult]
    /\ ExecutorUnused
    /\ ThreadsUnused
    /\ AppUnused
    /\ VerifyUnused
    /\ CaptureUnused
    /\ StorageUnused
    /\ ContextUnused
    /\ HostnameUnused
    /\ ProbeUnused

ResultRest ==
    UNCHANGED <<evars, tvars, avars, stream, app, capture, storages,
                lastGet, context, hostname, probe>>

\* ok / warn / crit / unknown / add_check_result: append one partial.
AddPartial(s) ==
    /\ Len(builder.results) < MaxPartials
    /\ builder' = [builder EXCEPT !.results = Append(@, s)]
    /\ ResultRest

\* to_check_result() on the builder as it stands.
ToCheckResult ==
    /\ builder' = [builder EXCEPT !.final = to_check_result(builder.results)]
    /\ ResultRest

NextResult ==
    \/ \E s \in CheckStates : AddPartial(s)
    \/ ToCheckResult

SpecResult == InitResult /\ [][NextResult]_vars

\* What the finalized state is, told from the set of partial states alone.
WorstOf(S) ==
    IF CRIT \in S THEN CRIT
    ELSE IF S = {} THEN OK
    ELSE CHOOSE s \in S : \A t \in S : t <= s

\* C31: a finalized builder is CRIT if any partial result is CRIT, otherwise
\* it has the numerically highest state among the partials, and OK when there
\* is none; the state depends on which states were added, not on their order.
C31_WorstState ==
    builder.final.none = FALSE =>
        /\ builder.final.check_state = WorstOf(Range(builder.final.of))
        /\ builder.final.summary = "ok_summary"
               <=> \A i \in 1..Len(builder.final.of) :
                       builder.final.of[i] = OK

\* CRIT wins over a later and over an earlier UNKNOWN.
C31_Witness ==
    /\ builder.final.none = FALSE
    /\ builder.final.of = <<UNKNOWN, CRIT, WARN>>
    /\ builder.final.check_state = CRIT
    /\ builder.results = <<UNKNOWN, CRIT, WARN>>


-----------------------------------------------------------------------------
(***************************************************************************)
(* SpecEntry: CacheEntry.is_expired (cache.py) asked of entries with and   *)
(* without added_at and ttl, at instants before, at and after the end of   *)
(* the ttl.                                                                *)
(***************************************************************************)

\* The latest instant, and the longest ttl, an entry is probed with.
MaxInstant == 4

\* added_at: datetime | None (cache.py:113-117)
NoTimestamp == [none |-> TRUE, at |-> 0]

Timestamp(t) == [none |-> FALSE, at |-> t]

Timestamps == {NoTimestamp} \cup {Timestamp(t) : t \in 0..MaxInstant}

\* ttl: timedelta | None (cache.py:118-121)
Durations == {NoDuration} \cup 0..MaxInstant

\* CacheEntry.is_expired with an inclusive comparison of the elapsed time.
CacheEntry_is_expired_at_ttl(added_at, ttl, t) ==
    IF added_at.none THEN FALSE
    ELSE ttl # NoDuration /\ t - added_at.at >= ttl

\* CacheEntry.is_expired (cache.py:125-134); t is datetime.now(tz=UTC).
CacheEntry_is_expired(added_at, ttl, t) ==
    IF added_at.none THEN FALSE
    ELSE ttl # NoDuration /\ t - added_at.at > ttl

NoProbe == [asked |-> FALSE]

InitEntry ==
    /\ probe = NoProbe
    /\ ExecutorUnused
    /\ ThreadsUnused
    /\ AppUnused
    /\ VerifyUnused
    /\ CaptureUnused
    /\ StorageUnused
    /\ ContextUnused
    /\ HostnameUnused
    /\ BuilderUnused

\* entry.is_expired() at instant t
IsExpired(added_at, ttl, t) ==
    /\ probe' = [asked    |-> TRUE,
                 added_at |-> added_at,
                 ttl      |-> ttl,
                 at       |-> t,
                 expired  |-> CacheEntry_is_expired(added_at, ttl, t)]
    /\ UNCHANGED <<evars, tvars, avars, stream, app, capture, storages,
                   lastGet, context, hostname, builder>>

NextEntry ==
    \E added_at \in Timestamps, ttl \in Durations, t \in 0..MaxInstant :
        IsExpired(added_at, ttl, t)

SpecEntry == InitEntry /\ [][NextEntry]_vars

\* The time elapsed since added_at exceeds the ttl; an entry without added_at
\* has no elapsed time, an entry without ttl nothing to exceed.
Outlived(p) ==
    /\ ~p.added_at.none
    /\ p.ttl # NoDuration
    /\ \E elapsed \in (-MaxInstant)..MaxInstant :
           /\ p.added_at.at + elapsed = p.at
           /\ elapsed > p.ttl

\* C32: is_expired() is true exactly when the entry has a ttl and the time
\* elapsed since added_at is greater than that ttl.
C32_ExpiredIffOutlived ==
    probe.asked => (probe.expired <=> Outlived(probe))

\* An entry probed exactly at the end of its ttl is not expired, one instant
\* later it is.
C32_Witness ==
    /\ probe.asked
    /\ ~probe.added_at.none
    /\ probe.ttl = 2
    /\ probe.at = probe.added_at.at + 2
    /\ ~probe.expired

C32_WitnessExpired ==
    /\ probe.asked
    /\ ~probe.added_at.none
    /\ probe.ttl = 2
    /\ probe.at = probe.added_at.at + 3
    /\ probe.expired


-----------------------------------------------------------------------------
(***************************************************************************)
(* SpecBlocking: BlockingCheckExecutor (executor.py:330-367) statement by  *)
(* statement.  submit, the workers and the completion callback are those   *)
(* of SpecThreads; result() first waits on the key's active futures and    *)
(* then runs CheckExecutor.result.  A future counts as completed for       *)
(* wait() from the moment the worker has set its outcome (W_Finish); the   *)
(* worker runs the done callbacks after that (W_Callback233/235).          *)
(***************************************************************************)

\* ---- BlockingCheckExecutor.result, executor.py:366  self._state[key]
B_Result366(t) ==
    /\ threads[t].pc = "idle"
    /\ IF TKey \in DOMAIN tstate
       THEN threads' = [threads EXCEPT ![t].pc = "wait366",
                          ![t].op = "result",
                          ![t].key_state = tstate[TKey]]
       ELSE threads' = [Return(t, "KeyError", 0, FALSE) EXCEPT
                          ![t].op = "result"]
    /\ UNCHANGED <<objects, tstate, tfutures, workers, snapshot, evars,
                   avars, stream, xvars>>

\* ---- executor.py:366  wait(active_futures, return_when="ALL_COMPLETED")
\* returns once every future of the list is done.
B_Wait366(t) ==
    /\ threads[t].pc = "wait366"
    /\ \A h \in Range(objects[threads[t].key_state].active_futures) :
           tfutures[h].done
    /\ threads' = [threads EXCEPT ![t].pc = "super258"]
    /\ UNCHANGED <<objects, tstate, tfutures, workers, snapshot, evars,
                   avars, stream, xvars>>

\* ---- executor.py:367 -> 258  super().result(key): self._state.get(key)
B_Result258(t) ==
    /\ threads[t].pc = "super258"
    /\ threads' = [threads EXCEPT ![t].pc = "result260",
                     ![t].key_state =
                        IF TKey \in DOMAIN tstate THEN tstate[TKey] ELSE 0]
    /\ UNCHANGED <<objects, tstate, tfutures, workers, snapshot, evars,
                   avars, stream, xvars>>

NextBlocking ==
    \/ \E resubmit \in BOOLEAN : T_Submit213(Submitter, resubmit)
    \/ \E t \in Callers : T_Submit215(t)
    \/ \E t \in Callers : T_Submit227(t)
    \/ \E t \in Callers : T_Submit228(t)
    \/ \E t \in Callers : T_Submit229(t)
    \/ \E t \in Callers : T_Callback233(t)
    \/ \E t \in Callers : T_Callback235(t)
    \/ \E h \in DOMAIN workers : W_Finish(h)
    \/ \E h \in DOMAIN workers : W_Callback233(h)
    \/ \E h \in DOMAIN workers : W_Callback235(h)
    \/ B_Result366(Picker)
    \/ B_Wait366(Picker)
    \/ B_Result258(Picker)
    \/ \E t \in Callers : T_Result260(t)
    \/ \E t \in Callers : T_Result268(t)
    \/ \E t \in Callers : T_Result270(t)
    \/ \E t \in Callers : T_Result274(t)

SpecBlocking == InitThreadsAlone /\ [][NextBlocking]_vars

\* C33: with the blocking executor, result(key) on a key with active handles
\* returns the outcome of a completed handle, never None.
C33_NeverNone ==
    (threads[Picker].pc = "done" /\ threads[Submitter].pc = "idle") =>
        threads[Picker].ret.kind # "None"


-----------------------------------------------------------------------------
\* A completion callback that found no state for its key (executor.py:236-237,
\* "completed after state cleanup"): the handle is not queued for pickup.
CompletedAfterCleanup ==
    \/ \E h \in DOMAIN workers :
           workers[h].pc = "callback235" /\ workers[h].key_state = 0
    \/ \E t \in Callers :
           threads[t].pc = "callback235" /\ threads[t].key_state = 0

\* C34: the completion callback of every handle scheduled by submit finds the
\* key's state present, so the handle is queued for pickup and no completed
\* job is lost.
C34_NoCompletedJobLost == ~CompletedAfterCleanup

\* As long as result() is not called while a submit is under way, the
\* callback does find the state.
C34_NoJobLostWithoutConcurrentResult ==
    threads[Picker].pc = "idle" => ~CompletedAfterCleanup


-----------------------------------------------------------------------------
\* A job of the key is still running.
StillRunning(key) ==
    \E h \in DOMAIN futures : futures[h].key = key /\ ~futures[h].done

\* C35: submit(key, resubmit=false) hands back an existing handle only while a
\* job of the key is still running; when every earlier job of the key has
\* completed, picked up or not, the call starts a new job.
C35_Step ==
    \A key \in Keys :
        ExSubmit(key, FALSE) =>
            /\ ~lastCall'.started => StillRunning(key)
            /\ ~StillRunning(key) => lastCall'.started

C35_DedupOnlyWhileRunning == [][C35_Step]_vars

\* What the code does: an existing handle is handed back as long as the key
\* has a handle that was not picked up, running or completed.
C35_StepHeld ==
    \A key \in Keys :
        ExSubmit(key, FALSE) =>
            (~lastCall'.started <=> Active(key) # <<>>)

C35_DedupWhileNotPickedUp == [][C35_StepHeld]_vars


\* A submit(resubmit=false) was answered with the handle of a job that has
\* completed and awaits pickup; no job of the key is running.
C35_Witness ==
    /\ lastCall.op = "submit" /\ ~lastCall.resubmit /\ ~lastCall.started
    /\ ~StillRunning(lastCall.key)
    /\ Finished(lastCall.key) # <<>>
    /\ lastCall.future = Head(Finished(lastCall.key))
    /\ lastCall.future = Head(Active(lastCall.key))


-----------------------------------------------------------------------------
\* _run_check was called for key in this step.
RunOf(key) == run'.turn # run.turn /\ run'.key = key

\* C36: when the jobs of a key have completed before a run, the run leaves
\* the executor with no more handles for the key (running or awaiting
\* pickup) than it held before, or with the single handle the run started;
\* the number of handles held does not grow from run to run.
C36_Step ==
    \A key \in Keys :
        (RunOf(key) /\ ~StillRunning(key)) =>
            \/ Len(Active(key)') <= 1
            \/ Len(Active(key)') <= Len(Active(key))

C36_HandlesBounded == [][C36_Step]_vars

\* The same for the runs that do not find a reusable entry of a check without
\* cache_for.
C36_StepUnlessReused ==
    \A key \in Keys :
        (/\ RunOf(key)
         /\ ~StillRunning(key)
         /\ ~(/\ checks[key[1]].cache_for = NoDuration
              /\ run'.cached.exists
              /\ ~is_expired(run'.cached, now))) =>
            \/ Len(Active(key)') <= 1
            \/ Len(Active(key)') <= Len(Active(key))

C36_HandlesBoundedUnlessReused == [][C36_StepUnlessReused]_vars


-----------------------------------------------------------------------------
\* The last call was a get(key, return_expired=true) on target (0: the
\* chain) that returned an expired entry, and this step is the next get on
\* the same target; nothing was stored and no time passed in between.
NextGetAfterExpired(target) ==
    /\ lastGet.target = target
    /\ lastGet.return_expired
    /\ Expired(lastGet.entry)
    /\ lastGet'.target = target
    /\ \/ \E return_expired \in BOOLEAN : ChainedGet(return_expired)
       \/ \E i \in DOMAIN storages, return_expired \in BOOLEAN :
             BackendGet(i, return_expired)

\* C37: a storage, the chained storage included, returns an expired entry at
\* most once: the get that follows a get(key, return_expired=true) which
\* returned an expired entry returns null.
C37_Step ==
    \A target \in 0..Len(storages) :
        NextGetAfterExpired(target) => lastGet'.entry = NoEntry

C37_ExpiredReturnedOnce == [][C37_Step]_vars

\* The same for the storages that are not chains.
C37_StepBackend ==
    \A target \in 1..Len(storages) :
        NextGetAfterExpired(target) => lastGet'.entry = NoEntry

C37_ExpiredReturnedOncePerBackend == [][C37_StepBackend]_vars


-----------------------------------------------------------------------------
\* C38: once every check execution has finished, sys.stdout is the original
\* stream again; no StringIO of a check is left installed.
C38_StreamsRestored ==
    (\A w \in Workers : capture.workers[w].pc = "done")
        => capture.sys_stdout = RealStdout


-----------------------------------------------------------------------------
\* Each handle in the finished queue of the key state ks is in its active
\* list as well.
FinishedAreActive(ks) ==
    Range(ks.finished_futures) \subseteq Range(ks.active_futures)

\* C39 (calls made one after the other): at every moment the finished
\* handles of every key are among its active ones, statistics().running is
\* not negative and result() never fails its assertion.
C39_FinishedWithinActiveSequential ==
    /\ \A key \in DOMAIN state : FinishedAreActive(state[key])
    /\ statistics(state, futures).running >= 0
    /\ lastCall.kind # "AssertionError"

-----------------------------------------------------------------------------
(***************************************************************************)
(* SpecCallers: the executor called again and again from two threads (two  *)
(* HTTP requests iterating Watchpost.run_checks on threads of the server's *)
(* pool), statement by statement as in SpecThreads.  Each thread makes one *)
(* call after the other; every call is a submit or a result for the key.   *)
(***************************************************************************)

InitCallers ==
    /\ objects = <<>>
    /\ tstate = EmptyMap
    /\ tfutures = EmptyMap
    /\ workers = EmptyMap
    /\ threads = [t \in Callers |-> IdleThread]
    /\ snapshot = [state |-> EmptyMap, started |-> {}, done |-> {}]
    /\ ExecutorUnused
    /\ AppUnused
    /\ OthersUnused

\* The submits under way that have not created their future yet.
Submitting ==
    { t \in Callers : threads[t].pc \in {"submit215", "submit227"} }

\* A call has returned (or raised); the thread goes on to its next call.
T_Return(t) ==
    /\ threads[t].pc = "done"
    /\ threads' = [threads EXCEPT ![t] = IdleThread]
    /\ UNCHANGED <<objects, tstate, tfutures, workers, snapshot, evars,
                   avars, stream, xvars>>

NextCallers ==
    \/ \E t \in Callers, resubmit \in BOOLEAN :
          /\ Cardinality(DOMAIN tfutures) + Cardinality(Submitting) < MaxJobs
          /\ T_Submit213(t, resubmit)
    \/ \E t \in Callers : T_Submit215(t)
    \/ \E t \in Callers : T_Submit227(t)
    \/ \E t \in Callers : T_Submit228(t)
    \/ \E t \in Callers : T_Submit229(t)
    \/ \E t \in Callers : T_Callback233(t)
    \/ \E t \in Callers : T_Callback235(t)
    \/ \E h \in DOMAIN workers : W_Finish(h)
    \/ \E h \in DOMAIN workers : W_Callback233(h)
    \/ \E h \in DOMAIN workers : W_Callback235(h)
    \/ \E t \in Callers : T_Result258(t)
    \/ \E t \in Callers : T_Result260(t)
    \/ \E t \in Callers : T_Result268(t)
    \/ \E t \in Callers : T_Result270(t)
    \/ \E t \in Callers : T_Result274(t)
    \/ \E t \in Callers : T_Return(t)

SpecCallers == InitCallers /\ [][NextCallers]_vars

\* statistics().running (executor.py:291-302) of the key's state: the
\* active handles less the finished ones.
RunningOf(ks) == Len(ks.active_futures) - Len(ks.finished_futures)

\* C39: at every moment each handle in the finished queue of the key is in
\* its active list as well, statistics().running is not negative and no
\* result() call fails the assertion it makes before it drops the state.
C39_FinishedWithinActiveAlways ==
    /\ \A t \in Callers : threads[t].ret.kind # "AssertionError"
    /\ TKey \in DOMAIN tstate =>
          /\ FinishedAreActive(objects[tstate[TKey]])
          /\ RunningOf(objects[tstate[TKey]]) >= 0

\* The assertion alone.
C39_AssertionHolds ==
    \A t \in Callers : threads[t].ret.kind # "AssertionError"

\* statistics().running alone.
C39_RunningNotNegative ==
    TKey \in DOMAIN tstate => RunningOf(objects[tstate[TKey]]) >= 0


-----------------------------------------------------------------------------
\* C40: a run whose aggregated decision for the (check, environment) pair is
\* SKIP or DONT_SCHEDULE submits nothing to the executor: no job is created
\* for the pair, the executor's state is as before and nothing is picked up.
C40_Step ==
    \A key \in Keys :
        (RunOf(key) /\ run'.decision \in {SKIP, DONT_SCHEDULE}) =>
            /\ ~run'.submitted /\ ~run'.started
            /\ futures' = futures
            /\ state' = state
            /\ picked' = picked

C40_UnscheduledSubmitsNothing == [][C40_Step]_vars

\* A run was skipped for a pair that has no job and no cached results: it
\* reported the pair as unschedulable and started nothing.
C40_Witness ==
    /\ run.turn = 1
    /\ run.decision = SKIP
    /\ ~run.cached.exists
    /\ run.returned = <<Unschedulable>>
    /\ ~run.submitted
    /\ futures = EmptyMap
====
